---- MODULE Spec2Model ----
(***************************************************************************)
(* Labour management backend: the controllers of the document collections  *)
(* and the authentication middleware                                       *)
(* as state machines over their document collections.  Every handler is a  *)
(* function from (collections, request) to (collections, response); the    *)
(* actions apply these functions to requests drawn from small sets.        *)
(***************************************************************************)
EXTENDS Integers, Sequences, FiniteSets, TLC

VARIABLES
  attendance,   \* the Attendance collection: a set of documents
  nextAttId,    \* number of the next Attendance _id the store assigns
  salary,       \* the Salary collection
  nextSalId,    \* number of the next Salary _id
  leaves,       \* the Leave collection
  nextLeaveId,  \* number of the next Leave _id
  notifications, \* the Notifications collection
  nextNotifId,  \* number of the next Notifications _id
  performance,  \* the Performance collection
  nextPerfId,   \* number of the next Performance _id
  nextUserId,   \* number of the next User _id
  projects,     \* the Project collection
  nextProjId,   \* number of the next Project _id
  labourers,    \* the Labourer collection
  nextLabId,    \* number of the next Labourer _id
  users,        \* the User collection
  inflight,     \* markAttendance requests suspended at an await (per request slot)
  resp          \* the response of the last completed request

\* The collections of the notification, performance, user, project and
\* labourer controllers.
otherStores == <<notifications, nextNotifId, performance, nextPerfId, nextUserId,
                 projects, nextProjId, labourers, nextLabId>>

vars == <<attendance, nextAttId, salary, nextSalId, leaves, nextLeaveId, users, otherStores,
          inflight, resp>>

-----------------------------------------------------------------------------
(* Bounds of the model *)

MaxAtt == 2      \* Attendance documents created in one behaviour
MaxSal == 2      \* Salary documents created in one behaviour
MaxLeave == 2    \* Leave documents created in one behaviour
MaxBulk == 2     \* entries in one bulkAddAttendance request
MaxListed == 4   \* documents per collection when the lists are read
MaxNotif == 2    \* Notifications documents created in one behaviour
MaxPerf == 2     \* Performance documents created in one behaviour

-----------------------------------------------------------------------------
(* Request values.  A request field is a JavaScript value; the model keeps *)
(* the values the handlers tell apart.                                     *)

Undefined == "undefined"          \* the field is absent
Null == "null"                    \* JSON null
EmptyString == ""
NotAnId == "xyz"                  \* a truthy string that is no ObjectId
Garbage == "garbage"              \* a truthy string that is no date

Truthy(v) == v \notin {Undefined, Null, EmptyString}

LabourerIds == {"L1", "L2"}
ProjectIds == {"P1"}
UserIds == {"U1", "U2"}

AttId(n) == "A" \o ToString(n)
SalId(n) == "S" \o ToString(n)
LeaveId(n) == "V" \o ToString(n)
NotifId(n) == "N" \o ToString(n)
PerfId(n) == "F" \o ToString(n)

AttendanceIds == {AttId(n) : n \in 1..(MaxAtt + 1)}
SalaryIds == {SalId(n) : n \in 1..(MaxSal + 1)}
LeaveIds == {LeaveId(n) : n \in 1..(MaxLeave + 1)}
NotificationIds == {NotifId(n) : n \in 1..(MaxNotif + 1)}
PerformanceIds == {PerfId(n) : n \in 1..(MaxPerf + 1)}

ObjectIds == LabourerIds \cup ProjectIds \cup UserIds \cup AttendanceIds
               \cup SalaryIds \cup LeaveIds \cup NotificationIds
               \cup PerformanceIds

\* mongoose.Types.ObjectId.isValid
IsValidObjectId(v) == v \in ObjectIds

\* Dates are day numbers; an unparseable date is NaNDate, a null date NullDate.
NaNDate == -1
NullDate == 0

\* new Date(v) for the date strings of the model
ParseDate(v) ==
  CASE v = "2024-01-01" -> 1
    [] v = "2024-01-02" -> 2
    [] v = "2024-01-03" -> 3
    [] OTHER -> NaNDate

allowedShifts == {"morning", "evening", "night"}
allowedStatuses == {"present", "absent", "half-day"}

NoBody == [none |-> TRUE]
Response(op, code, body) == [op |-> op, code |-> code, body |-> body]

-----------------------------------------------------------------------------
(* Attendance model (attendance.model.js) *)

AttendanceKey(d) == <<d.labourerId, d.projectId, d.date, d.shift>>

\* Schema casting and validation of a document about to be written: ObjectId
\* paths cast (null and undefined pass, anything else must be an ObjectId),
\* date must not be an invalid Date, shift and status are required enums.
attendanceSchemaValid(d) ==
  /\ d.labourerId \in {Undefined, Null} \/ IsValidObjectId(d.labourerId)
  /\ d.projectId \in {Undefined, Null} \/ IsValidObjectId(d.projectId)
  /\ d.markedBy \in {Undefined, Null} \/ IsValidObjectId(d.markedBy)
  /\ d.date # NaNDate
  /\ d.shift \in allowedShifts
  /\ d.status \in allowedStatuses

\* attendanceInsert on a collection that keeps one document per key.
attendanceInsertOncePerKey(att, doc) ==
  IF \E d \in att : AttendanceKey(d) = AttendanceKey(doc) THEN att ELSE att \cup {doc}

\* The collection has no unique index: an insert always adds the document.
attendanceInsert(att, doc) == att \cup {doc}

-----------------------------------------------------------------------------
(* markAttendance *)

\* markAttendanceExists with the existence check left out.
markAttendanceExistsSkipped(att, body) == FALSE

\* Attendance.findOne({labourerId, projectId, date, shift})
markAttendanceExists(att, body) ==
  \E d \in att :
     /\ d.labourerId = body.labourerId
     /\ d.projectId = body.projectId
     /\ d.date = ParseDate(body.date)
     /\ d.shift = body.shift

\* Steps 1-3: the status the request is rejected with, or 0 when it passes.
markAttendanceCheck(att, body) ==
  IF \/ ~Truthy(body.labourerId) \/ ~Truthy(body.projectId) \/ ~Truthy(body.date)
     \/ ~Truthy(body.shift) \/ ~Truthy(body.status)
    THEN 400
  ELSE IF ~IsValidObjectId(body.labourerId) THEN 400
  ELSE IF ~IsValidObjectId(body.projectId) THEN 400
  ELSE IF Truthy(body.markedBy) /\ ~IsValidObjectId(body.markedBy) THEN 400
  ELSE IF ParseDate(body.date) = NaNDate THEN 500   \* the query cannot cast an Invalid Date
  ELSE IF markAttendanceExists(att, body) THEN 409
  ELSE 0

markAttendanceDoc(newId, body) ==
  [_id |-> newId, labourerId |-> body.labourerId, projectId |-> body.projectId,
   date |-> ParseDate(body.date), shift |-> body.shift, status |-> body.status,
   markedBy |-> body.markedBy]

\* Step 4: Attendance.create; a document the schema rejects throws (500).
markAttendanceCreate(att, newId, body) ==
  LET doc == markAttendanceDoc(newId, body) IN
  IF attendanceSchemaValid(doc)
    THEN [code |-> 201, att |-> attendanceInsert(att, doc), body |-> [attendance |-> doc]]
    ELSE [code |-> 500, att |-> att, body |-> NoBody]

markAttendanceResult(att, newId, body) ==
  LET c == markAttendanceCheck(att, body) IN
  IF c # 0 THEN [code |-> c, att |-> att, body |-> NoBody]
  ELSE markAttendanceCreate(att, newId, body)

markAttendance(body) ==
  LET r == markAttendanceResult(attendance, AttId(nextAttId), body) IN
  /\ r.code = 201 => nextAttId <= MaxAtt
  /\ attendance' = r.att
  /\ nextAttId' = IF r.code = 201 THEN nextAttId + 1 ELSE nextAttId
  /\ resp' = Response("markAttendance", r.code, r.body)
  /\ UNCHANGED <<otherStores, users, salary, nextSalId, leaves, nextLeaveId, inflight>>

\* markAttendance as the event loop runs it: the handler is suspended at
\* `await Attendance.findOne` and at `await Attendance.create`, and another
\* request may run in between.  Slot p holds one request.
markAttendanceAwaitFindOne(p, body) ==
  LET c == markAttendanceCheck(attendance, body) IN
  /\ inflight[p].stage = "idle"
  /\ inflight' = [inflight EXCEPT ![p] =
        [stage |-> IF c = 0 THEN "checked" ELSE "done", body |-> body, code |-> c]]
  /\ resp' = IF c = 0 THEN resp ELSE Response("markAttendance", c, NoBody)
  /\ UNCHANGED <<otherStores, users, attendance, nextAttId, salary, nextSalId, leaves, nextLeaveId>>

markAttendanceAwaitCreate(p) ==
  /\ inflight[p].stage = "checked"
  /\ nextAttId <= MaxAtt
  /\ LET r == markAttendanceCreate(attendance, AttId(nextAttId), inflight[p].body) IN
       /\ attendance' = r.att
       /\ nextAttId' = nextAttId + 1
       /\ inflight' = [inflight EXCEPT ![p] = [@ EXCEPT !.stage = "done", !.code = r.code]]
       /\ resp' = Response("markAttendance", r.code, r.body)
  /\ UNCHANGED <<otherStores, users, salary, nextSalId, leaves, nextLeaveId>>

-----------------------------------------------------------------------------
(* updateAttendance *)

\* Mongoose casts a value assigned to a Date path: null and "" become null.
castDate(v) == IF v \in {Null, EmptyString} THEN NullDate ELSE ParseDate(v)

\* Attendance.findOne({_id: {$ne: id}, labourerId, projectId, date, shift})
updateAttendanceExisting(att, id, l, p, dt, sh) ==
  \E d \in att :
     /\ d._id # id
     /\ d.labourerId = l
     /\ d.projectId = p
     /\ d.date = dt
     /\ d.shift = sh

\* Step 9: the duplicate check runs only when a key field of the update is truthy.
updateAttendanceConflict(att, doc, u) ==
  /\ Truthy(u.labourerId) \/ Truthy(u.projectId) \/ Truthy(u.date) \/ Truthy(u.shift)
  /\ updateAttendanceExisting(att, doc._id,
        IF Truthy(u.labourerId) THEN u.labourerId ELSE doc.labourerId,
        IF Truthy(u.projectId) THEN u.projectId ELSE doc.projectId,
        IF Truthy(u.date) THEN ParseDate(u.date) ELSE doc.date,
        IF Truthy(u.shift) THEN u.shift ELSE doc.shift)

\* Steps 10-11: Object.assign(attendance, updates) with every field that is not
\* undefined, cast by the schema on save.
updateAttendanceAssign(doc, u) ==
  [_id |-> doc._id,
   labourerId |-> IF u.labourerId # Undefined THEN u.labourerId ELSE doc.labourerId,
   projectId |-> IF u.projectId # Undefined THEN u.projectId ELSE doc.projectId,
   date |-> IF u.date # Undefined THEN castDate(u.date) ELSE doc.date,
   shift |-> IF u.shift # Undefined THEN u.shift ELSE doc.shift,
   status |-> IF u.status # Undefined THEN u.status ELSE doc.status,
   markedBy |-> IF u.markedBy # Undefined THEN u.markedBy ELSE doc.markedBy]

updateAttendanceResult(att, id, u) ==
  IF ~IsValidObjectId(id) THEN [code |-> 400, att |-> att]
  ELSE IF Truthy(u.labourerId) /\ ~IsValidObjectId(u.labourerId) THEN [code |-> 400, att |-> att]
  ELSE IF Truthy(u.projectId) /\ ~IsValidObjectId(u.projectId) THEN [code |-> 400, att |-> att]
  ELSE IF Truthy(u.markedBy) /\ ~IsValidObjectId(u.markedBy) THEN [code |-> 400, att |-> att]
  ELSE IF Truthy(u.shift) /\ u.shift \notin allowedShifts THEN [code |-> 400, att |-> att]
  ELSE IF Truthy(u.status) /\ u.status \notin allowedStatuses THEN [code |-> 400, att |-> att]
  ELSE IF Truthy(u.date) /\ ParseDate(u.date) = NaNDate THEN [code |-> 400, att |-> att]
  ELSE IF ~\E d \in att : d._id = id THEN [code |-> 404, att |-> att]
  ELSE LET doc == CHOOSE d \in att : d._id = id
           new == updateAttendanceAssign(doc, u) IN
       IF updateAttendanceConflict(att, doc, u) THEN [code |-> 409, att |-> att]
       ELSE IF ~attendanceSchemaValid(new) THEN [code |-> 500, att |-> att]
       ELSE [code |-> 200, att |-> (att \ {doc}) \cup {new}]

updateAttendance(id, u) ==
  LET r == updateAttendanceResult(attendance, id, u) IN
  /\ attendance' = r.att
  /\ resp' = Response("updateAttendance", r.code, NoBody)
  /\ UNCHANGED <<otherStores, users, nextAttId, salary, nextSalId, leaves, nextLeaveId, inflight>>

-----------------------------------------------------------------------------
(* deleteAttendance *)

deleteAttendanceResult(att, id) ==
  IF ~IsValidObjectId(id) THEN [code |-> 400, att |-> att]
  ELSE IF ~\E d \in att : d._id = id THEN [code |-> 404, att |-> att]
  ELSE [code |-> 200, att |-> {d \in att : d._id # id}]

deleteAttendance(id) ==
  LET r == deleteAttendanceResult(attendance, id) IN
  /\ attendance' = r.att
  /\ resp' = Response("deleteAttendance", r.code, NoBody)
  /\ UNCHANGED <<otherStores, users, nextAttId, salary, nextSalId, leaves, nextLeaveId, inflight>>

-----------------------------------------------------------------------------
(* bulkAddAttendance *)

\* The positions of S in the order forEach visits them (ascending).
RECURSIVE Ascending(_)
Ascending(S) ==
  IF S = {} THEN <<>>
  ELSE LET m == CHOOSE x \in S : \A y \in S : x <= y IN <<m>> \o Ascending(S \ {m})

\* The per-entry checks of step 2; every failing check overwrites `error`, so
\* the message of the last failing check is reported ("" when the entry is valid).
bulkEntryError(rec) ==
  IF Truthy(rec.markedBy) /\ ~IsValidObjectId(rec.markedBy) THEN "Invalid markedBy"
  ELSE IF ~Truthy(rec.status) \/ rec.status \notin allowedStatuses THEN "Missing/invalid status"
  ELSE IF ~Truthy(rec.shift) \/ rec.shift \notin allowedShifts THEN "Missing/invalid shift"
  ELSE IF ~Truthy(rec.date) \/ ParseDate(rec.date) = NaNDate THEN "Missing/invalid date"
  ELSE IF ~Truthy(rec.projectId) \/ ~IsValidObjectId(rec.projectId) THEN "Missing/invalid projectId"
  ELSE IF ~Truthy(rec.labourerId) \/ ~IsValidObjectId(rec.labourerId) THEN "Missing/invalid labourerId"
  ELSE ""

\* Positions (1-based) of the entries pushed to validRecords / to errors.
bulkValidPos(recs) == Ascending({i \in 1..Len(recs) : bulkEntryError(recs[i]) = ""})
bulkInvalidPos(recs) == Ascending({i \in 1..Len(recs) : bulkEntryError(recs[i]) # ""})

\* errors.push({ idx, error, record: rec })
bulkErrors(recs) ==
  LET pos == bulkInvalidPos(recs) IN
  [k \in 1..Len(pos) |->
     [idx |-> pos[k] - 1, error |-> bulkEntryError(recs[pos[k]]), record |-> pos[k] - 1]]

\* insertMany(validRecords, {ordered: false}) validates every document first and
\* drops the ones the schema rejects without reporting them; the rest go to the
\* store.  The result is the positions, within validRecords, of the documents
\* handed to the store.
insertManyUnorderedDocs(recs) ==
  LET vpos == bulkValidPos(recs) IN
  Ascending({k \in 1..Len(vpos) : attendanceSchemaValid(markAttendanceDoc("new", recs[vpos[k]]))})

\* The store's write errors carry the index of the document in the array the
\* store was given; the handler reports that index and validRecords[index].
bulkWriteFailures(recs, writeErrors) ==
  LET vpos == bulkValidPos(recs)
      n == Len(insertManyUnorderedDocs(recs))
      failing == Ascending({j \in 1..n : (j - 1) \in writeErrors}) IN
  [k \in 1..Len(failing) |->
     [idx |-> failing[k] - 1, error |-> "write error", record |-> vpos[failing[k]] - 1]]

\* Positions, within the submitted list, of the entries the store inserts.
bulkStoredPos(recs, writeErrors) ==
  LET vpos == bulkValidPos(recs)
      docs == insertManyUnorderedDocs(recs)
      ok == Ascending({j \in 1..Len(docs) : (j - 1) \notin writeErrors}) IN
  [k \in 1..Len(ok) |-> vpos[docs[ok[k]]]]

bulkNoValidRecords(n) == [error |-> "No valid attendance records to add", failed |-> n]

\* bulkAddAttendance without the validRecords.length === 0 check.
bulkAddAttendanceResultNoValidCheck(att, firstId, recs, writeErrors, resultHasInsertedDocs) ==
  IF Len(recs) = 0
    THEN [code |-> 400, att |-> att, created |-> 0,
          body |-> [error |-> "attendanceRecords must be a non-empty array"]]
  ELSE
    LET stored == bulkStoredPos(recs, writeErrors)
        docs == {markAttendanceDoc(AttId(firstId + k - 1), recs[stored[k]]) : k \in 1..Len(stored)}
        \* inserted: the array insertMany resolves with, or on a write error
        \* err.result.insertedDocs || []
        inserted == IF writeErrors = {} \/ resultHasInsertedDocs THEN Len(stored) ELSE 0
        failed == bulkErrors(recs) \o bulkWriteFailures(recs, writeErrors) IN
    [code |-> 201, att |-> att \cup docs, created |-> Len(stored),
     body |-> [insertedCount |-> inserted, failedCount |-> Len(failed), failedRecords |-> failed]]

bulkAddAttendanceResult(att, firstId, recs, writeErrors, resultHasInsertedDocs) ==
  IF Len(recs) = 0
    THEN [code |-> 400, att |-> att, created |-> 0,
          body |-> [error |-> "attendanceRecords must be a non-empty array"]]
  ELSE IF Len(bulkValidPos(recs)) = 0
    THEN [code |-> 400, att |-> att, created |-> 0,
          body |-> bulkNoValidRecords(Len(bulkErrors(recs)))]
  ELSE
    LET stored == bulkStoredPos(recs, writeErrors)
        docs == {markAttendanceDoc(AttId(firstId + k - 1), recs[stored[k]]) : k \in 1..Len(stored)}
        \* inserted: the array insertMany resolves with, or on a write error
        \* err.result.insertedDocs || []
        inserted == IF writeErrors = {} \/ resultHasInsertedDocs THEN Len(stored) ELSE 0
        failed == bulkErrors(recs) \o bulkWriteFailures(recs, writeErrors) IN
    [code |-> 201, att |-> att \cup docs, created |-> Len(stored),
     body |-> [insertedCount |-> inserted, failedCount |-> Len(failed), failedRecords |-> failed]]

bulkAddAttendance(recs, writeErrors, resultHasInsertedDocs) ==
  LET r == bulkAddAttendanceResult(attendance, nextAttId, recs, writeErrors, resultHasInsertedDocs) IN
  /\ nextAttId + r.created <= MaxAtt + 1
  /\ attendance' = r.att
  /\ nextAttId' = nextAttId + r.created
  /\ resp' = Response("bulkAddAttendance", r.code, r.body)
  /\ UNCHANGED <<otherStores, users, salary, nextSalId, leaves, nextLeaveId, inflight>>

-----------------------------------------------------------------------------
(* Salary model (salary.model.js) and controller *)

\* A JSON value of a numeric field: a number, a value of another type, or absent.
JsNumber(n) == [t |-> "number", v |-> n]
JsString == [t |-> "string", v |-> 0]
JsUndefined == [t |-> "undefined", v |-> 0]

SalaryKey(d) == <<d.labourerId, d.startPeriod, d.endPeriod>>

allowedSalaryStatus == {"pending", "paid"}

\* salarySchema: the three numbers, status and payslipUrl are required; a
\* required String path rejects the empty string; status is an enum.
salarySchemaValid(d) ==
  /\ d.labourerId \in {Undefined, Null} \/ IsValidObjectId(d.labourerId)
  /\ d.startPeriod # NaNDate /\ d.endPeriod # NaNDate
  /\ d.totalDaysPresent.t = "number"
  /\ d.dailyWage.t = "number"
  /\ d.totalSalary.t = "number"
  /\ d.status \in allowedSalaryStatus
  /\ d.payslipUrl \notin {Undefined, Null, EmptyString}

\* Model.insertMany(docs) with the default ordered: true validates every
\* document before anything is sent to the store: one invalid document rejects
\* the call and nothing is inserted.
salaryInsertMany(sal, docs) ==
  IF \A d \in docs : salarySchemaValid(d)
    THEN [ok |-> TRUE, sal |-> sal \cup docs]
    ELSE [ok |-> FALSE, sal |-> sal]

createSalaryRecordResult(sal, newId, body) ==
  IF \/ ~Truthy(body.labourerId) \/ ~Truthy(body.startPeriod) \/ ~Truthy(body.endPeriod)
     \/ body.totalDaysPresent.t = "undefined" \/ body.dailyWage.t = "undefined"
     \/ body.totalSalary.t = "undefined" \/ ~Truthy(body.status) \/ ~Truthy(body.payslipUrl)
    THEN [code |-> 400, sal |-> sal]
  ELSE IF ~IsValidObjectId(body.labourerId) THEN [code |-> 400, sal |-> sal]
  ELSE IF ParseDate(body.startPeriod) = NaNDate \/ ParseDate(body.endPeriod) = NaNDate
    THEN [code |-> 400, sal |-> sal]
  ELSE IF ParseDate(body.startPeriod) > ParseDate(body.endPeriod) THEN [code |-> 400, sal |-> sal]
  ELSE IF body.status \notin allowedSalaryStatus THEN [code |-> 400, sal |-> sal]
  ELSE IF \/ body.totalDaysPresent.t = "number" /\ body.totalDaysPresent.v < 0
          \/ body.dailyWage.t = "number" /\ body.dailyWage.v < 0
          \/ body.totalSalary.t = "number" /\ body.totalSalary.v < 0
    THEN [code |-> 400, sal |-> sal]
  ELSE LET doc == [_id |-> newId, labourerId |-> body.labourerId,
                   startPeriod |-> ParseDate(body.startPeriod),
                   endPeriod |-> ParseDate(body.endPeriod),
                   totalDaysPresent |-> body.totalDaysPresent,
                   dailyWage |-> body.dailyWage, totalSalary |-> body.totalSalary,
                   status |-> body.status, payslipUrl |-> body.payslipUrl] IN
       IF salarySchemaValid(doc) THEN [code |-> 201, sal |-> sal \cup {doc}]
       ELSE [code |-> 500, sal |-> sal]

createSalaryRecord(body) ==
  LET r == createSalaryRecordResult(salary, SalId(nextSalId), body) IN
  /\ r.code = 201 => nextSalId <= MaxSal
  /\ salary' = r.sal
  /\ nextSalId' = IF r.code = 201 THEN nextSalId + 1 ELSE nextSalId
  /\ resp' = Response("createSalaryRecord", r.code, NoBody)
  /\ UNCHANGED <<otherStores, users, attendance, nextAttId, leaves, nextLeaveId, inflight>>

\* Object.assign(salary, updates): every field of the body that is not undefined.
updateSalaryRecordAssign(doc, u) ==
  [_id |-> doc._id,
   labourerId |-> IF u.labourerId # Undefined THEN u.labourerId ELSE doc.labourerId,
   startPeriod |-> IF Truthy(u.startPeriod) THEN ParseDate(u.startPeriod)
                   ELSE IF u.startPeriod # Undefined THEN castDate(u.startPeriod)
                   ELSE doc.startPeriod,
   endPeriod |-> IF Truthy(u.endPeriod) THEN ParseDate(u.endPeriod)
                 ELSE IF u.endPeriod # Undefined THEN castDate(u.endPeriod)
                 ELSE doc.endPeriod,
   totalDaysPresent |-> IF u.totalDaysPresent.t # "undefined" THEN u.totalDaysPresent
                        ELSE doc.totalDaysPresent,
   dailyWage |-> IF u.dailyWage.t # "undefined" THEN u.dailyWage ELSE doc.dailyWage,
   totalSalary |-> IF u.totalSalary.t # "undefined" THEN u.totalSalary ELSE doc.totalSalary,
   status |-> IF u.status # Undefined THEN u.status ELSE doc.status,
   payslipUrl |-> IF u.payslipUrl # Undefined THEN u.payslipUrl ELSE doc.payslipUrl]

updateSalaryRecordResult(sal, id, u) ==
  IF ~IsValidObjectId(id) THEN [code |-> 400, sal |-> sal]
  ELSE IF Truthy(u.labourerId) /\ ~IsValidObjectId(u.labourerId) THEN [code |-> 400, sal |-> sal]
  ELSE IF Truthy(u.startPeriod) /\ ParseDate(u.startPeriod) = NaNDate THEN [code |-> 400, sal |-> sal]
  ELSE IF Truthy(u.endPeriod) /\ ParseDate(u.endPeriod) = NaNDate THEN [code |-> 400, sal |-> sal]
  ELSE IF /\ Truthy(u.startPeriod) /\ Truthy(u.endPeriod)
          /\ ParseDate(u.startPeriod) > ParseDate(u.endPeriod)
    THEN [code |-> 400, sal |-> sal]
  ELSE IF u.totalDaysPresent.t = "number" /\ u.totalDaysPresent.v < 0 THEN [code |-> 400, sal |-> sal]
  ELSE IF u.dailyWage.t = "number" /\ u.dailyWage.v < 0 THEN [code |-> 400, sal |-> sal]
  ELSE IF u.totalSalary.t = "number" /\ u.totalSalary.v < 0 THEN [code |-> 400, sal |-> sal]
  ELSE IF Truthy(u.status) /\ u.status \notin allowedSalaryStatus THEN [code |-> 400, sal |-> sal]
  ELSE IF ~\E d \in sal : d._id = id THEN [code |-> 404, sal |-> sal]
  ELSE LET doc == CHOOSE d \in sal : d._id = id
           new == updateSalaryRecordAssign(doc, u) IN
       IF salarySchemaValid(new) THEN [code |-> 200, sal |-> (sal \ {doc}) \cup {new}]
       ELSE [code |-> 500, sal |-> sal]

updateSalaryRecord(id, u) ==
  LET r == updateSalaryRecordResult(salary, id, u) IN
  /\ salary' = r.sal
  /\ resp' = Response("updateSalaryRecord", r.code, NoBody)
  /\ UNCHANGED <<otherStores, users, attendance, nextAttId, nextSalId, leaves, nextLeaveId, inflight>>

\* markSalaryAsPaid: paymentDate is no path of salarySchema and is not stored.
markSalaryAsPaidResult(sal, id, paymentDate) ==
  IF ~IsValidObjectId(id) THEN [code |-> 400, sal |-> sal]
  ELSE IF Truthy(paymentDate) /\ ParseDate(paymentDate) = NaNDate THEN [code |-> 400, sal |-> sal]
  ELSE IF ~\E d \in sal : d._id = id THEN [code |-> 404, sal |-> sal]
  ELSE LET doc == CHOOSE d \in sal : d._id = id IN
       [code |-> 200, sal |-> (sal \ {doc}) \cup {[doc EXCEPT !.status = "paid"]}]

markSalaryAsPaid(id, paymentDate) ==
  LET r == markSalaryAsPaidResult(salary, id, paymentDate) IN
  /\ salary' = r.sal
  /\ resp' = Response("markSalaryAsPaid", r.code, NoBody)
  /\ UNCHANGED <<otherStores, users, attendance, nextAttId, nextSalId, leaves, nextLeaveId, inflight>>

deleteSalaryRecordResult(sal, id) ==
  IF ~IsValidObjectId(id) THEN [code |-> 400, sal |-> sal]
  ELSE IF ~\E d \in sal : d._id = id THEN [code |-> 404, sal |-> sal]
  ELSE [code |-> 200, sal |-> {d \in sal : d._id # id}]

deleteSalaryRecord(id) ==
  LET r == deleteSalaryRecordResult(salary, id) IN
  /\ salary' = r.sal
  /\ resp' = Response("deleteSalaryRecord", r.code, NoBody)
  /\ UNCHANGED <<otherStores, users, attendance, nextAttId, nextSalId, leaves, nextLeaveId, inflight>>

-----------------------------------------------------------------------------
(* generateSalaryForPeriod *)

\* Step 1: Attendance.aggregate: $match date in [start, end] and status
\* "present", $group by labourerId with a count.
presentDays(att, l, start, end) ==
  Cardinality({d \in att : /\ d.labourerId = l
                           /\ d.date # NullDate /\ d.date >= start /\ d.date <= end
                           /\ d.status = "present"})

attendanceAggregation(att, start, end) ==
  {l \in {d.labourerId : d \in att} : presentDays(att, l, start, end) > 0}

\* Step 2: Salary.find({labourerId: {$in}, startPeriod: start, endPeriod: end})
existingLabourerIds(sal, labourerIds, start, end) ==
  {d.labourerId : d \in {x \in sal : /\ x.labourerId \in labourerIds
                                    /\ x.startPeriod = start /\ x.endPeriod = end}}

\* Step 3: the records to create.
salaryRecordsToCreate(att, sal, start, end, dailyWage) ==
  {[labourerId |-> l, startPeriod |-> start, endPeriod |-> end,
    totalDaysPresent |-> JsNumber(presentDays(att, l, start, end)),
    dailyWage |-> JsNumber(dailyWage),
    totalSalary |-> JsNumber(presentDays(att, l, start, end) * dailyWage),
    status |-> "pending", payslipUrl |-> EmptyString] :
     l \in attendanceAggregation(att, start, end)
            \ existingLabourerIds(sal, attendanceAggregation(att, start, end), start, end)}

\* The _id each record gets when it is inserted.
RECURSIVE withSalaryIds(_, _)
withSalaryIds(recs, n) ==
  IF recs = {} THEN {}
  ELSE LET r == CHOOSE x \in recs : TRUE IN
       {[_id |-> SalId(n), labourerId |-> r.labourerId, startPeriod |-> r.startPeriod,
         endPeriod |-> r.endPeriod, totalDaysPresent |-> r.totalDaysPresent,
         dailyWage |-> r.dailyWage, totalSalary |-> r.totalSalary, status |-> r.status,
         payslipUrl |-> r.payslipUrl]} \cup withSalaryIds(recs \ {r}, n + 1)

\* The message of each answer of generateSalaryForPeriod.
generateSalaryMessage(outcome) ==
  CASE outcome = "no attendance records" ->
         "No attendance records found for the given period to generate salary."
    [] outcome = "already generated" ->
         "Salary records for this period already generated for all labourers."
    [] outcome = "generated" -> "Generated salary records for labourers"
    [] OTHER -> "error"

\* generateSalaryForPeriod without the early return on an empty aggregation.
generateSalaryForPeriodResultNoEmptyCheck(att, sal, firstId, body) ==
  IF ~Truthy(body.startPeriod) \/ ~Truthy(body.endPeriod) \/ body.dailyWage.t = "undefined"
    THEN [code |-> 400, sal |-> sal, outcome |-> "rejected", generated |-> 0]
  ELSE IF ParseDate(body.startPeriod) = NaNDate \/ ParseDate(body.endPeriod) = NaNDate
    THEN [code |-> 400, sal |-> sal, outcome |-> "rejected", generated |-> 0]
  ELSE IF ParseDate(body.startPeriod) > ParseDate(body.endPeriod)
    THEN [code |-> 400, sal |-> sal, outcome |-> "rejected", generated |-> 0]
  ELSE IF body.dailyWage.t # "number" \/ body.dailyWage.v < 0
    THEN [code |-> 400, sal |-> sal, outcome |-> "rejected", generated |-> 0]
  ELSE
    LET start == ParseDate(body.startPeriod)
        end == ParseDate(body.endPeriod)
        toCreate == salaryRecordsToCreate(att, sal, start, end, body.dailyWage.v) IN
    IF toCreate = {}
      THEN [code |-> 200, sal |-> sal, outcome |-> "already generated", generated |-> 0]
    ELSE LET ins == salaryInsertMany(sal, withSalaryIds(toCreate, firstId)) IN
         IF ins.ok
           THEN [code |-> 201, sal |-> ins.sal, outcome |-> "generated",
                 generated |-> Cardinality(toCreate)]
           ELSE [code |-> 500, sal |-> sal, outcome |-> "error", generated |-> 0]

\* generateSalaryForPeriod without the check that start is not after end.
generateSalaryForPeriodResultAnyOrder(att, sal, firstId, body) ==
  IF ~Truthy(body.startPeriod) \/ ~Truthy(body.endPeriod) \/ body.dailyWage.t = "undefined"
    THEN [code |-> 400, sal |-> sal, outcome |-> "rejected", generated |-> 0]
  ELSE IF ParseDate(body.startPeriod) = NaNDate \/ ParseDate(body.endPeriod) = NaNDate
    THEN [code |-> 400, sal |-> sal, outcome |-> "rejected", generated |-> 0]
  ELSE IF body.dailyWage.t # "number" \/ body.dailyWage.v < 0
    THEN [code |-> 400, sal |-> sal, outcome |-> "rejected", generated |-> 0]
  ELSE
    LET start == ParseDate(body.startPeriod)
        end == ParseDate(body.endPeriod)
        toCreate == salaryRecordsToCreate(att, sal, start, end, body.dailyWage.v) IN
    IF attendanceAggregation(att, start, end) = {}
      THEN [code |-> 200, sal |-> sal, outcome |-> "no attendance records", generated |-> 0]
    ELSE IF toCreate = {}
      THEN [code |-> 200, sal |-> sal, outcome |-> "already generated", generated |-> 0]
    ELSE LET ins == salaryInsertMany(sal, withSalaryIds(toCreate, firstId)) IN
         IF ins.ok
           THEN [code |-> 201, sal |-> ins.sal, outcome |-> "generated",
                 generated |-> Cardinality(toCreate)]
           ELSE [code |-> 500, sal |-> sal, outcome |-> "error", generated |-> 0]

\* generateSalaryForPeriod rewriting the wage of the records of the period it finds.
generateSalaryForPeriodResultOverwriting(att, sal, firstId, body) ==
  IF ~Truthy(body.startPeriod) \/ ~Truthy(body.endPeriod) \/ body.dailyWage.t = "undefined"
    THEN [code |-> 400, sal |-> sal, outcome |-> "rejected", generated |-> 0]
  ELSE IF ParseDate(body.startPeriod) = NaNDate \/ ParseDate(body.endPeriod) = NaNDate
    THEN [code |-> 400, sal |-> sal, outcome |-> "rejected", generated |-> 0]
  ELSE IF ParseDate(body.startPeriod) > ParseDate(body.endPeriod)
    THEN [code |-> 400, sal |-> sal, outcome |-> "rejected", generated |-> 0]
  ELSE IF body.dailyWage.t # "number" \/ body.dailyWage.v < 0
    THEN [code |-> 400, sal |-> sal, outcome |-> "rejected", generated |-> 0]
  ELSE
    LET start == ParseDate(body.startPeriod)
        end == ParseDate(body.endPeriod)
        toCreate == salaryRecordsToCreate(att, sal, start, end, body.dailyWage.v) IN
    IF attendanceAggregation(att, start, end) = {}
      THEN [code |-> 200, sal |-> sal, outcome |-> "no attendance records", generated |-> 0]
    ELSE IF toCreate = {}
      THEN [code |-> 200,
            sal |-> {IF d.startPeriod = start /\ d.endPeriod = end
                       THEN [d EXCEPT !.dailyWage = body.dailyWage] ELSE d : d \in sal},
            outcome |-> "already generated", generated |-> 0]
    ELSE LET ins == salaryInsertMany(sal, withSalaryIds(toCreate, firstId)) IN
         IF ins.ok
           THEN [code |-> 201, sal |-> ins.sal, outcome |-> "generated",
                 generated |-> Cardinality(toCreate)]
           ELSE [code |-> 500, sal |-> sal, outcome |-> "error", generated |-> 0]

generateSalaryForPeriodResult(att, sal, firstId, body) ==
  IF ~Truthy(body.startPeriod) \/ ~Truthy(body.endPeriod) \/ body.dailyWage.t = "undefined"
    THEN [code |-> 400, sal |-> sal, outcome |-> "rejected", generated |-> 0]
  ELSE IF ParseDate(body.startPeriod) = NaNDate \/ ParseDate(body.endPeriod) = NaNDate
    THEN [code |-> 400, sal |-> sal, outcome |-> "rejected", generated |-> 0]
  ELSE IF ParseDate(body.startPeriod) > ParseDate(body.endPeriod)
    THEN [code |-> 400, sal |-> sal, outcome |-> "rejected", generated |-> 0]
  ELSE IF body.dailyWage.t # "number" \/ body.dailyWage.v < 0
    THEN [code |-> 400, sal |-> sal, outcome |-> "rejected", generated |-> 0]
  ELSE
    LET start == ParseDate(body.startPeriod)
        end == ParseDate(body.endPeriod)
        toCreate == salaryRecordsToCreate(att, sal, start, end, body.dailyWage.v) IN
    IF attendanceAggregation(att, start, end) = {}
      THEN [code |-> 200, sal |-> sal, outcome |-> "no attendance records", generated |-> 0]
    ELSE IF toCreate = {}
      THEN [code |-> 200, sal |-> sal, outcome |-> "already generated", generated |-> 0]
    ELSE LET ins == salaryInsertMany(sal, withSalaryIds(toCreate, firstId)) IN
         IF ins.ok
           THEN [code |-> 201, sal |-> ins.sal, outcome |-> "generated",
                 generated |-> Cardinality(toCreate)]
           ELSE [code |-> 500, sal |-> sal, outcome |-> "error", generated |-> 0]

generateSalaryForPeriod(body) ==
  LET r == generateSalaryForPeriodResult(attendance, salary, nextSalId, body) IN
  /\ nextSalId + Cardinality(r.sal \ salary) <= MaxSal + 1
  /\ salary' = r.sal
  /\ nextSalId' = nextSalId + Cardinality(r.sal \ salary)
  /\ resp' = Response("generateSalaryForPeriod", r.code,
                      [outcome |-> r.outcome, message |-> generateSalaryMessage(r.outcome),
                       generated |-> r.generated, request |-> body])
  /\ UNCHANGED <<otherStores, users, attendance, nextAttId, leaves, nextLeaveId, inflight>>

-----------------------------------------------------------------------------
(* Leave model (leave.model.js) and controller *)

LongReason == "a reason of 501 characters"
Blank == "   "

\* String.prototype.trim on the reasons and remarks of the model
Trim(v) == IF v = Blank THEN EmptyString ELSE v

LeaveError(code, msg, lv) == [code |-> code, lv |-> lv, body |-> [error |-> msg]]

applyForLeaveResult(lv, newId, body) ==
  IF \/ ~Truthy(body.labourerId) \/ ~Truthy(body.fromDate) \/ ~Truthy(body.toDate)
     \/ ~Truthy(body.reason)
    THEN LeaveError(400, "required", lv)
  ELSE IF ~IsValidObjectId(body.labourerId) THEN LeaveError(400, "Invalid labourerId", lv)
  ELSE IF ParseDate(body.fromDate) = NaNDate \/ ParseDate(body.toDate) = NaNDate
    THEN LeaveError(400, "Invalid fromDate or toDate", lv)
  ELSE IF ParseDate(body.toDate) < ParseDate(body.fromDate)
    THEN LeaveError(400, "toDate cannot be before fromDate", lv)
  ELSE IF Trim(body.reason) = EmptyString THEN LeaveError(400, "Reason must be a non-empty string", lv)
  ELSE IF body.reason = LongReason THEN LeaveError(400, "Reason must be at most 500 characters", lv)
  ELSE LET doc == [_id |-> newId, labourerId |-> body.labourerId,
                   fromDate |-> ParseDate(body.fromDate), toDate |-> ParseDate(body.toDate),
                   reason |-> Trim(body.reason), status |-> "pending",
                   reviewedBy |-> Undefined] IN
       [code |-> 201, lv |-> lv \cup {doc}, body |-> [leaveRequest |-> doc]]

applyForLeave(body) ==
  LET r == applyForLeaveResult(leaves, LeaveId(nextLeaveId), body) IN
  /\ r.code = 201 => nextLeaveId <= MaxLeave
  /\ leaves' = r.lv
  /\ nextLeaveId' = IF r.code = 201 THEN nextLeaveId + 1 ELSE nextLeaveId
  /\ resp' = Response("applyForLeave", r.code, r.body)
  /\ UNCHANGED <<otherStores, users, attendance, nextAttId, salary, nextSalId, inflight>>

\* approveLeave and rejectLeave differ in the status they write.
reviewLeaveResult(lv, id, reviewedBy, status) ==
  IF ~IsValidObjectId(id) THEN LeaveError(400, "Invalid leave request ID", lv)
  ELSE IF ~Truthy(reviewedBy) \/ ~IsValidObjectId(reviewedBy)
    THEN LeaveError(400, "Invalid reviewedBy user ID", lv)
  ELSE IF ~\E d \in lv : d._id = id THEN LeaveError(404, "Leave request not found", lv)
  ELSE LET doc == CHOOSE d \in lv : d._id = id IN
       IF doc.status # "pending" THEN LeaveError(400, "not pending", lv)
       ELSE LET new == [doc EXCEPT !.status = status, !.reviewedBy = reviewedBy] IN
            [code |-> 200, lv |-> (lv \ {doc}) \cup {new}, body |-> [leaveRequest |-> new]]

\* approveLeave without step 4, the check that the leave is pending.
approveLeaveResultAnyStatus(lv, id, reviewedBy) ==
  IF ~IsValidObjectId(id) THEN LeaveError(400, "Invalid leave request ID", lv)
  ELSE IF ~Truthy(reviewedBy) \/ ~IsValidObjectId(reviewedBy)
    THEN LeaveError(400, "Invalid reviewedBy user ID", lv)
  ELSE IF ~\E d \in lv : d._id = id THEN LeaveError(404, "Leave request not found", lv)
  ELSE LET doc == CHOOSE d \in lv : d._id = id
           new == [doc EXCEPT !.status = "approved", !.reviewedBy = reviewedBy] IN
       [code |-> 200, lv |-> (lv \ {doc}) \cup {new}, body |-> [leaveRequest |-> new]]

approveLeaveResult(lv, id, reviewedBy) == reviewLeaveResult(lv, id, reviewedBy, "approved")

rejectLeaveResult(lv, id, reviewedBy) == reviewLeaveResult(lv, id, reviewedBy, "rejected")

approveLeave(id, reviewedBy) ==
  LET r == approveLeaveResult(leaves, id, reviewedBy) IN
  /\ leaves' = r.lv
  /\ resp' = Response("approveLeave", r.code, r.body)
  /\ UNCHANGED <<otherStores, users, attendance, nextAttId, salary, nextSalId, nextLeaveId, inflight>>

rejectLeave(id, reviewedBy) ==
  LET r == rejectLeaveResult(leaves, id, reviewedBy) IN
  /\ leaves' = r.lv
  /\ resp' = Response("rejectLeave", r.code, r.body)
  /\ UNCHANGED <<otherStores, users, attendance, nextAttId, salary, nextSalId, nextLeaveId, inflight>>

\* cancelLeaveRequest without step 3, the check that the leave is pending.
cancelLeaveRequestResultAnyStatus(lv, id) ==
  IF ~IsValidObjectId(id) THEN LeaveError(400, "Invalid leave request ID", lv)
  ELSE IF ~\E d \in lv : d._id = id THEN LeaveError(404, "Leave request not found", lv)
  ELSE [code |-> 200, lv |-> {d \in lv : d._id # id}, body |-> NoBody]

cancelLeaveRequestResult(lv, id) ==
  IF ~IsValidObjectId(id) THEN LeaveError(400, "Invalid leave request ID", lv)
  ELSE IF ~\E d \in lv : d._id = id THEN LeaveError(404, "Leave request not found", lv)
  ELSE LET doc == CHOOSE d \in lv : d._id = id IN
       IF doc.status # "pending" THEN LeaveError(400, "not pending", lv)
       ELSE [code |-> 200, lv |-> {d \in lv : d._id # id}, body |-> NoBody]

cancelLeaveRequest(id) ==
  LET r == cancelLeaveRequestResult(leaves, id) IN
  /\ leaves' = r.lv
  /\ resp' = Response("cancelLeaveRequest", r.code, r.body)
  /\ UNCHANGED <<otherStores, users, attendance, nextAttId, salary, nextSalId, nextLeaveId, inflight>>

\* addRemarkToLeaveRequest assigns leaveRequest.remarks, which is no path of
\* leaveSchema: save() writes nothing.
addRemarkToLeaveRequestResult(lv, id, remark) ==
  IF ~IsValidObjectId(id) THEN LeaveError(400, "Invalid leave request ID", lv)
  ELSE IF ~Truthy(remark) \/ Trim(remark) = EmptyString
    THEN LeaveError(400, "Remark must be a non-empty string", lv)
  ELSE IF ~\E d \in lv : d._id = id THEN LeaveError(404, "Leave request not found", lv)
  ELSE [code |-> 200, lv |-> lv, body |-> [leaveRequest |-> CHOOSE d \in lv : d._id = id]]

addRemarkToLeaveRequest(id, remark) ==
  LET r == addRemarkToLeaveRequestResult(leaves, id, remark) IN
  /\ leaves' = r.lv
  /\ resp' = Response("addRemarkToLeaveRequest", r.code, r.body)
  /\ UNCHANGED <<otherStores, users, attendance, nextAttId, salary, nextSalId, nextLeaveId, inflight>>

-----------------------------------------------------------------------------
(* Lists: query-string numbers, pagination, sort, skip and limit *)

DefaultPage == 1
DefaultLimit == 20

JsNaN == [t |-> "NaN", v |-> 0]

\* let { page = 1, limit = 20 } = req.query: the default replaces an absent
\* parameter only; parseInt and Number read 1 and "1" alike.
queryDefault(v, d) == IF v = Undefined THEN ToString(d) ELSE v

\* parseInt(v, 10): the leading integer of the text, NaN when there is none.
ParseInt(v) ==
  CASE v = "0" -> JsNumber(0)
    [] v = "1" -> JsNumber(1)
    [] v = "2" -> JsNumber(2)
    [] v = "3" -> JsNumber(3)
    [] v = "20" -> JsNumber(20)
    [] v = "-1" -> JsNumber(-1)
    [] v = "-2" -> JsNumber(-2)
    [] v = "2abc" -> JsNumber(2)
    [] OTHER -> JsNaN

\* Number(v): the whole text must be a number.
ToNumber(v) == IF v = "2abc" THEN JsNaN ELSE ParseInt(v)

\* parseInt(v, 10) > 0 ? parseInt(v, 10) : d
parseIntPositiveOr(v, d) ==
  LET n == ParseInt(v) IN IF n.t = "number" /\ n.v > 0 THEN n ELSE JsNumber(d)

\* n = parseInt(v, 10); if (isNaN(n) || n < 1) n = d
parseIntAtLeastOneOr(v, d) ==
  LET n == ParseInt(v) IN IF n.t = "NaN" \/ n.v < 1 THEN JsNumber(d) ELSE n

\* parseInt(v, 10) || d: NaN and 0 are falsy, a negative number is not.
parseIntOr(v, d) ==
  LET n == ParseInt(v) IN IF n.t = "NaN" \/ n.v = 0 THEN JsNumber(d) ELSE n

\* parseInt(v, 10) > 0 ? Number(v) : d
parseIntPositiveThenNumberOr(v, d) ==
  LET n == ParseInt(v) IN IF n.t = "number" /\ n.v > 0 THEN ToNumber(v) ELSE JsNumber(d)

\* const skip = (page - 1) * limit
skipOf(page, limit) ==
  IF page.t = "NaN" \/ limit.t = "NaN" THEN JsNaN ELSE JsNumber((page.v - 1) * limit.v)

Paging(page, limit) == [page |-> page, limit |-> limit, skip |-> skipOf(page, limit)]

Min(a, b) == IF a < b THEN a ELSE b
Max(a, b) == IF a > b THEN a ELSE b

\* Math.ceil(total / limit) for a limit that is a number other than 0
ceilDiv(total, limit) ==
  IF limit > 0 THEN (total + limit - 1) \div limit ELSE 0 - (total \div (0 - limit))

\* Lexicographic order on sort keys (tuples of day numbers of one length).
RECURSIVE KeyLeq(_, _)
KeyLeq(a, b) ==
  IF Len(a) = 0 THEN TRUE
  ELSE IF Head(a) # Head(b) THEN Head(a) < Head(b)
  ELSE KeyLeq(Tail(a), Tail(b))

\* .sort({ key: -1 }) over <<key, document>> pairs: documents by descending
\* key.  The store's order among equal keys is not specified; one is fixed.
RECURSIVE sortDescending(_)
sortDescending(pairs) ==
  IF pairs = {} THEN <<>>
  ELSE LET top == CHOOSE x \in pairs : \A y \in pairs : KeyLeq(y[1], x[1]) IN
       <<top[2]>> \o sortDescending(pairs \ {top})

\* The store refuses the query (CastError) or the handler throws.
StoreError == [code |-> 500, body |-> [error |-> "store error"]]

ClientError(msg) == [code |-> 400, body |-> [error |-> msg]]

\* The store refuses a skip that is NaN or negative.
skipAccepted(paging) == paging.skip.t = "number" /\ paging.skip.v >= 0 /\ paging.limit.t = "number"

\* find(filters).limit(limit) without the skip.
findPageWithoutSkip(sorted, paging) ==
  LET lim == IF paging.limit.v < 0 THEN 0 - paging.limit.v ELSE paging.limit.v IN
  SubSeq(sorted, 1, Min(Len(sorted), lim))

\* find(filters).skip(skip).limit(limit) over the sorted matches; a negative
\* limit is read by the driver as its absolute value.
findPage(sorted, paging) ==
  LET lim == IF paging.limit.v < 0 THEN 0 - paging.limit.v ELSE paging.limit.v IN
  SubSeq(sorted, paging.skip.v + 1, Min(Len(sorted), paging.skip.v + lim))

\* The list response: meta and the page of records (thrown store errors end
\* in the error handler).  listAllUsers and the project lists name the count
\* totalUsers and totalProjects.  paging holds the handler's page, limit and
\* skip for the properties; it is no part of the JSON sent.
listResult(sorted, paging) ==
  IF ~skipAccepted(paging) THEN StoreError
  ELSE LET records == findPage(sorted, paging) IN
       [code |-> 200,
        body |-> [meta |-> [total |-> Len(sorted),
                            totalPages |-> ceilDiv(Len(sorted), paging.limit.v),
                            currentPage |-> paging.page.v,
                            pageSize |-> Len(records)],
                  records |-> records,
                  paging |-> paging]]

-----------------------------------------------------------------------------
(* Attendance lists and summaries *)

\* date: { $gte: bound } / { $lte: bound } match Date values only
dateGte(v, bound) == v # NullDate /\ v >= bound
dateLte(v, bound) == v # NullDate /\ v <= bound

\* if (startDate || endDate) { filters.date = {}; ... if (!isNaN(start))
\* filters.date.$gte = start ... }: a bound that does not parse is left out;
\* when no bound is set filters.date stays {}, which does not cast to a Date.
attendanceDateFilterEmpty(q) ==
  /\ Truthy(q.startDate) \/ Truthy(q.endDate)
  /\ ~(Truthy(q.startDate) /\ ParseDate(q.startDate) # NaNDate)
  /\ ~(Truthy(q.endDate) /\ ParseDate(q.endDate) # NaNDate)

\* The filters both attendance lists build from the query, beside the path id.
attendanceListFilters(d, q) ==
  /\ (Truthy(q.status) /\ q.status \in allowedStatuses) => d.status = q.status
  /\ (Truthy(q.shift) /\ q.shift \in allowedShifts) => d.shift = q.shift
  /\ (Truthy(q.markedBy) /\ IsValidObjectId(q.markedBy)) => d.markedBy = q.markedBy
  /\ (Truthy(q.startDate) /\ ParseDate(q.startDate) # NaNDate) =>
        dateGte(d.date, ParseDate(q.startDate))
  /\ (Truthy(q.endDate) /\ ParseDate(q.endDate) # NaNDate) =>
        dateLte(d.date, ParseDate(q.endDate))

attendanceByDateDescending(docs) == sortDescending({<<(<<d.date>>), d>> : d \in docs})

getAttendanceByLabourerResult(att, labourerId, q) ==
  IF ~IsValidObjectId(labourerId) THEN ClientError("Invalid labourer ID")
  ELSE IF attendanceDateFilterEmpty(q) THEN StoreError
  ELSE
    LET paging == Paging(parseIntPositiveOr(queryDefault(q.page, DefaultPage), DefaultPage),
                         parseIntPositiveOr(queryDefault(q.limit, DefaultLimit), DefaultLimit))
        matches == {d \in att :
                      /\ d.labourerId = labourerId
                      /\ (Truthy(q.projectId) /\ IsValidObjectId(q.projectId)) =>
                            d.projectId = q.projectId
                      /\ attendanceListFilters(d, q)} IN
    listResult(attendanceByDateDescending(matches), paging)

getAttendanceByLabourer(labourerId, q) ==
  LET r == getAttendanceByLabourerResult(attendance, labourerId, q) IN
  /\ resp' = Response("getAttendanceByLabourer", r.code, r.body)
  /\ UNCHANGED <<otherStores, attendance, nextAttId, salary, nextSalId, leaves, nextLeaveId, users, inflight>>

getAttendanceByProjectResult(att, projectId, q) ==
  IF ~IsValidObjectId(projectId) THEN ClientError("Invalid project ID")
  ELSE IF attendanceDateFilterEmpty(q) THEN StoreError
  ELSE
    LET paging == Paging(parseIntAtLeastOneOr(queryDefault(q.page, DefaultPage), DefaultPage),
                         parseIntAtLeastOneOr(queryDefault(q.limit, DefaultLimit), DefaultLimit))
        matches == {d \in att :
                      /\ d.projectId = projectId
                      /\ (Truthy(q.labourerId) /\ IsValidObjectId(q.labourerId)) =>
                            d.labourerId = q.labourerId
                      /\ attendanceListFilters(d, q)} IN
    listResult(attendanceByDateDescending(matches), paging)

getAttendanceByProject(projectId, q) ==
  LET r == getAttendanceByProjectResult(attendance, projectId, q) IN
  /\ resp' = Response("getAttendanceByProject", r.code, r.body)
  /\ UNCHANGED <<otherStores, attendance, nextAttId, salary, nextSalId, leaves, nextLeaveId, users, inflight>>

\* mongoose.Types.ObjectId(id) called without `new`: bson 4 (mongoose 6 and
\* older) returns an ObjectId, bson 5 and later (mongoose 7 and later) throw a
\* TypeError.  The repository pins no version.
ObjectIdCallOutcomes == {"returns", "throws"}

\* $group by status with $sum: 1: one { _id, count } per status that occurs.
groupByStatus(docs) ==
  {[_id |-> s, count |-> Cardinality({d \in docs : d.status = s})] : s \in {d.status : d \in docs}}

\* summary[key] = count of the group with that _id; the initial 0 stays otherwise.
groupCount(aggregationResult, id) ==
  IF \E g \in aggregationResult : g._id = id
    THEN (CHOOSE g \in aggregationResult : g._id = id).count
    ELSE 0

RECURSIVE reduceCounts(_)
reduceCounts(aggregationResult) ==
  IF aggregationResult = {} THEN 0
  ELSE LET cur == CHOOSE g \in aggregationResult : TRUE IN
       cur.count + reduceCounts(aggregationResult \ {cur})

attendanceSummary(docs) ==
  LET aggregationResult == groupByStatus(docs) IN
  [present |-> groupCount(aggregationResult, "present"),
   absent |-> groupCount(aggregationResult, "absent"),
   halfDay |-> groupCount(aggregationResult, "half-day"),
   totalRecords |-> reduceCounts(aggregationResult)]

\* The date range of both summaries; "" when the bounds are accepted.
summaryDateError(q) ==
  IF Truthy(q.startDate) /\ ParseDate(q.startDate) = NaNDate THEN "Invalid startDate"
  ELSE IF Truthy(q.endDate) /\ ParseDate(q.endDate) = NaNDate THEN "Invalid endDate"
  ELSE ""

summaryDateMatch(d, q) ==
  /\ Truthy(q.startDate) => dateGte(d.date, ParseDate(q.startDate))
  /\ Truthy(q.endDate) => dateLte(d.date, ParseDate(q.endDate))

getLabourerAttendanceSummaryResult(att, labourerId, q, objectIdCall) ==
  IF ~IsValidObjectId(labourerId) THEN ClientError("Invalid labourer ID")
  ELSE IF summaryDateError(q) # "" THEN ClientError(summaryDateError(q))
  ELSE IF objectIdCall = "throws" THEN StoreError
  ELSE [code |-> 200,
        body |-> [labourerId |-> labourerId,
                  summary |-> attendanceSummary(
                     {d \in att : d.labourerId = labourerId /\ summaryDateMatch(d, q)})]]

getLabourerAttendanceSummary(labourerId, q, objectIdCall) ==
  LET r == getLabourerAttendanceSummaryResult(attendance, labourerId, q, objectIdCall) IN
  /\ resp' = Response("getLabourerAttendanceSummary", r.code, r.body)
  /\ UNCHANGED <<otherStores, attendance, nextAttId, salary, nextSalId, leaves, nextLeaveId, users, inflight>>

getProjectAttendanceSummaryResult(att, projectId, q, objectIdCall) ==
  IF ~IsValidObjectId(projectId) THEN ClientError("Invalid project ID")
  ELSE IF summaryDateError(q) # "" THEN ClientError(summaryDateError(q))
  ELSE IF objectIdCall = "throws" THEN StoreError
  ELSE [code |-> 200,
        body |-> [projectId |-> projectId,
                  summary |-> attendanceSummary(
                     {d \in att : d.projectId = projectId /\ summaryDateMatch(d, q)})]]

getProjectAttendanceSummary(projectId, q, objectIdCall) ==
  LET r == getProjectAttendanceSummaryResult(attendance, projectId, q, objectIdCall) IN
  /\ resp' = Response("getProjectAttendanceSummary", r.code, r.body)
  /\ UNCHANGED <<otherStores, attendance, nextAttId, salary, nextSalId, leaves, nextLeaveId, users, inflight>>

-----------------------------------------------------------------------------
(* Salary lists and summaries *)

\* if (startPeriod || endPeriod) { $and: [ endPeriod >= start, startPeriod <= end ] }
\* where a bound that is absent or does not parse adds no condition.
periodOverlapLenient(s, e, queryStart, queryEnd) ==
  /\ (Truthy(queryStart) /\ ParseDate(queryStart) # NaNDate) => dateGte(e, ParseDate(queryStart))
  /\ (Truthy(queryEnd) /\ ParseDate(queryEnd) # NaNDate) => dateLte(s, ParseDate(queryEnd))

salaryByPeriodDescending(docs) ==
  sortDescending({<<(<<d.startPeriod, d.endPeriod>>), d>> : d \in docs})

\* paymentDate is no path of salarySchema: a filter on it is removed by
\* strictQuery, or kept and matched by no stored document.
StrictQueryOutcomes == {"filter removed", "filter kept"}

listSalaryRecordsResult(sal, q, strictQuery) ==
  IF Truthy(q.status) /\ q.status \notin allowedSalaryStatus
    THEN ClientError("Status must be 'pending' or 'paid'")
  ELSE
    LET paging == Paging(parseIntPositiveOr(queryDefault(q.page, DefaultPage), DefaultPage),
                         parseIntPositiveOr(queryDefault(q.limit, DefaultLimit), DefaultLimit))
        paymentDateFilter == Truthy(q.paymentDate) /\ ParseDate(q.paymentDate) # NaNDate
        matches == {d \in sal :
                      /\ (Truthy(q.labourerId) /\ IsValidObjectId(q.labourerId)) =>
                            d.labourerId = q.labourerId
                      /\ Truthy(q.status) => d.status = q.status
                      /\ periodOverlapLenient(d.startPeriod, d.endPeriod, q.startPeriod, q.endPeriod)
                      /\ (paymentDateFilter /\ strictQuery = "filter kept") => FALSE} IN
    listResult(salaryByPeriodDescending(matches), paging)

listSalaryRecords(q, strictQuery) ==
  LET r == listSalaryRecordsResult(salary, q, strictQuery) IN
  /\ resp' = Response("listSalaryRecords", r.code, r.body)
  /\ UNCHANGED <<otherStores, attendance, nextAttId, salary, nextSalId, leaves, nextLeaveId, users, inflight>>

viewSalaryPayslipDetailsForLabourerResult(sal, labourerId, q) ==
  IF ~IsValidObjectId(labourerId) THEN ClientError("Invalid labourer ID")
  ELSE IF Truthy(q.status) /\ q.status \notin allowedSalaryStatus
    THEN ClientError("Status must be 'pending' or 'paid'")
  ELSE
    LET paging == Paging(parseIntPositiveOr(queryDefault(q.page, DefaultPage), DefaultPage),
                         parseIntPositiveOr(queryDefault(q.limit, DefaultLimit), DefaultLimit))
        matches == {d \in sal :
                      /\ d.labourerId = labourerId
                      /\ Truthy(q.status) => d.status = q.status
                      /\ periodOverlapLenient(d.startPeriod, d.endPeriod, q.startPeriod, q.endPeriod)} IN
    listResult(salaryByPeriodDescending(matches), paging)

viewSalaryPayslipDetailsForLabourer(labourerId, q) ==
  LET r == viewSalaryPayslipDetailsForLabourerResult(salary, labourerId, q) IN
  /\ resp' = Response("viewSalaryPayslipDetailsForLabourer", r.code, r.body)
  /\ UNCHANGED <<otherStores, attendance, nextAttId, salary, nextSalId, leaves, nextLeaveId, users, inflight>>

\* "" when the period bounds are accepted
summaryPeriodError(q) ==
  IF Truthy(q.startPeriod) /\ ParseDate(q.startPeriod) = NaNDate THEN "Invalid startPeriod"
  ELSE IF Truthy(q.endPeriod) /\ ParseDate(q.endPeriod) = NaNDate THEN "Invalid endPeriod"
  ELSE ""

\* $group with _id: null; the ids of the matched records are kept beside the
\* summary for the properties.
RECURSIVE sumOf(_, _)
sumOf(docs, field) ==
  IF docs = {} THEN 0
  ELSE LET d == CHOOSE x \in docs : TRUE IN d[field].v + sumOf(docs \ {d}, field)

salarySummary(docs) ==
  [totalPaid |-> sumOf({d \in docs : d.status = "paid"}, "totalSalary"),
   totalPending |-> sumOf({d \in docs : d.status = "pending"}, "totalSalary"),
   recordsCount |-> Cardinality(docs),
   totalDaysPresent |-> sumOf(docs, "totalDaysPresent")]

\* matchCondition.startPeriod = { $gte: start, $lte: end }: both bounds are
\* put on startPeriod.
salarySummaryByLabourerResult(sal, labourerId, q, objectIdCall) ==
  IF ~IsValidObjectId(labourerId) THEN ClientError("Invalid labourer ID")
  ELSE IF summaryPeriodError(q) # "" THEN ClientError(summaryPeriodError(q))
  ELSE IF objectIdCall = "throws" THEN StoreError
  ELSE LET matches == {d \in sal :
                         /\ d.labourerId = labourerId
                         /\ Truthy(q.startPeriod) => dateGte(d.startPeriod, ParseDate(q.startPeriod))
                         /\ Truthy(q.endPeriod) => dateLte(d.startPeriod, ParseDate(q.endPeriod))} IN
       [code |-> 200, body |-> [summary |-> salarySummary(matches), matched |-> matches]]

salarySummaryByLabourer(labourerId, q, objectIdCall) ==
  LET r == salarySummaryByLabourerResult(salary, labourerId, q, objectIdCall) IN
  /\ resp' = Response("salarySummaryByLabourer", r.code, r.body)
  /\ UNCHANGED <<otherStores, attendance, nextAttId, salary, nextSalId, leaves, nextLeaveId, users, inflight>>

salarySummaryByPeriodResult(sal, q) ==
  IF summaryPeriodError(q) # "" THEN ClientError(summaryPeriodError(q))
  ELSE LET matches == {d \in sal :
                         /\ Truthy(q.startPeriod) => dateGte(d.endPeriod, ParseDate(q.startPeriod))
                         /\ Truthy(q.endPeriod) => dateLte(d.startPeriod, ParseDate(q.endPeriod))} IN
       [code |-> 200, body |-> [summary |-> salarySummary(matches), matched |-> matches]]

salarySummaryByPeriod(q) ==
  LET r == salarySummaryByPeriodResult(salary, q) IN
  /\ resp' = Response("salarySummaryByPeriod", r.code, r.body)
  /\ UNCHANGED <<otherStores, attendance, nextAttId, salary, nextSalId, leaves, nextLeaveId, users, inflight>>

-----------------------------------------------------------------------------
(* Leave lists *)

allowedLeaveStatus == {"pending", "approved", "rejected"}

leaveByFromDateDescending(docs) == sortDescending({<<(<<d.fromDate>>), d>> : d \in docs})

getLeaveStatusByLabourerResult(lv, labourerId, q) ==
  IF ~IsValidObjectId(labourerId) THEN ClientError("Invalid labourer ID")
  ELSE IF Truthy(q.status) /\ q.status \notin allowedLeaveStatus
    THEN ClientError("Invalid status filter")
  ELSE
    LET paging == Paging(parseIntPositiveOr(queryDefault(q.page, DefaultPage), DefaultPage),
                         parseIntPositiveOr(queryDefault(q.limit, DefaultLimit), DefaultLimit))
        matches == {d \in lv :
                      /\ d.labourerId = labourerId
                      /\ Truthy(q.status) => d.status = q.status
                      /\ periodOverlapLenient(d.fromDate, d.toDate, q.fromDate, q.toDate)} IN
    listResult(leaveByFromDateDescending(matches), paging)

getLeaveStatusByLabourer(labourerId, q) ==
  LET r == getLeaveStatusByLabourerResult(leaves, labourerId, q) IN
  /\ resp' = Response("getLeaveStatusByLabourer", r.code, r.body)
  /\ UNCHANGED <<otherStores, attendance, nextAttId, salary, nextSalId, leaves, nextLeaveId, users, inflight>>

listLeaveRequestsResult(lv, q) ==
  LET paging == Paging(parseIntPositiveOr(queryDefault(q.page, DefaultPage), DefaultPage),
                       parseIntPositiveOr(queryDefault(q.limit, DefaultLimit), DefaultLimit))
      matches == {d \in lv :
                    /\ (Truthy(q.labourerId) /\ IsValidObjectId(q.labourerId)) =>
                          d.labourerId = q.labourerId
                    /\ (Truthy(q.status) /\ q.status \in allowedLeaveStatus) => d.status = q.status
                    /\ periodOverlapLenient(d.fromDate, d.toDate, q.fromDate, q.toDate)
                    /\ (Truthy(q.reviewedBy) /\ IsValidObjectId(q.reviewedBy)) =>
                          d.reviewedBy = q.reviewedBy} IN
  listResult(leaveByFromDateDescending(matches), paging)

listLeaveRequests(q) ==
  LET r == listLeaveRequestsResult(leaves, q) IN
  /\ resp' = Response("listLeaveRequests", r.code, r.body)
  /\ UNCHANGED <<otherStores, attendance, nextAttId, salary, nextSalId, leaves, nextLeaveId, users, inflight>>

-----------------------------------------------------------------------------
(* User and project lists *)

\* users in the order of .sort({ createdAt: -1 }): createdAt grows with n.
usersNewestFirst(docs) == sortDescending({<<(<<d.n>>), d>> : d \in docs})

\* listAllUsers runs behind isAuthenticated: reqUser is the document of the
\* caller.  The requests of the model filter by role only (no username, no
\* status).
ToLowerCase(v) ==
  CASE v = "Admin" -> "admin"
    [] v = "A@x.com" -> "a@x.com"
    [] v = "Bob" -> "bob"
    [] OTHER -> v

listAllUsersResult(us, reqUser, q) ==
  IF reqUser.role # "admin" THEN [code |-> 403, body |-> [error |-> "Admins only"]]
  ELSE
    LET paging == Paging(parseIntOr(q.page, DefaultPage), parseIntOr(q.limit, DefaultLimit))
        matches == {d \in us : Truthy(q.role) => d.role = ToLowerCase(q.role)} IN
    listResult(usersNewestFirst(matches), paging)

listAllUsers(reqUser, q) ==
  LET r == listAllUsersResult(users, reqUser, q) IN
  /\ resp' = Response("listAllUsers", r.code, r.body)
  /\ UNCHANGED <<otherStores, attendance, nextAttId, salary, nextSalId, leaves, nextLeaveId, users, inflight>>

\* The Project collection as database.js leaves it; no project is created here.
NoProjects == {}

listProjectsByLabourerResult(projs, labourerId, q) ==
  IF ~IsValidObjectId(labourerId) THEN ClientError("Invalid labourer ID")
  ELSE
    LET paging == Paging(parseIntPositiveThenNumberOr(queryDefault(q.page, DefaultPage), DefaultPage),
                         parseIntPositiveThenNumberOr(queryDefault(q.limit, DefaultLimit), DefaultLimit))
        matches == {d \in projs : labourerId \in d.assignedLabourers} IN
    listResult(sortDescending({<<(<<d.n>>), d>> : d \in matches}), paging)

listProjectsByLabourer(labourerId, q) ==
  LET r == listProjectsByLabourerResult(NoProjects, labourerId, q) IN
  /\ resp' = Response("listProjectsByLabourer", r.code, r.body)
  /\ UNCHANGED <<otherStores, attendance, nextAttId, salary, nextSalId, leaves, nextLeaveId, users, inflight>>

-----------------------------------------------------------------------------
(* Requests of the attendance specifications *)

MarkBody(l, dt, sh, st) ==
  [labourerId |-> l, projectId |-> "P1", date |-> dt, shift |-> sh, status |-> st,
   markedBy |-> Undefined]

\* Well-formed bodies, and bodies with one field missing or malformed.
ValidMarkBodies ==
  {MarkBody(l, dt, "morning", st) :
     l \in LabourerIds, dt \in {"2024-01-01", "2024-01-02"}, st \in {"present", "absent"}}

MarkBodies ==
  ValidMarkBodies \cup
  {MarkBody(Undefined, "2024-01-01", "morning", "present"),
   MarkBody(NotAnId, "2024-01-01", "morning", "present"),
   MarkBody("L1", Garbage, "morning", "present"),
   MarkBody("L1", "2024-01-01", "bogus", "present")}

NoUpdate ==
  [labourerId |-> Undefined, projectId |-> Undefined, date |-> Undefined,
   shift |-> Undefined, status |-> Undefined, markedBy |-> Undefined]

UpdateBodies ==
  {[NoUpdate EXCEPT !.labourerId = "L2"],
   [NoUpdate EXCEPT !.date = "2024-01-02"],
   [NoUpdate EXCEPT !.date = Null],
   [NoUpdate EXCEPT !.shift = "night"],
   [NoUpdate EXCEPT !.status = "absent"],
   [NoUpdate EXCEPT !.shift = "bogus"],
   [NoUpdate EXCEPT !.date = Garbage],
   [NoUpdate EXCEPT !.shift = Null]}

\* Path parameters: the ids the store assigns (the last one is never assigned)
\* and one malformed id.
AttendanceIdParams == AttendanceIds \cup {NotAnId}

BulkEntry(l, sh, mb) ==
  [labourerId |-> l, projectId |-> "P1", date |-> "2024-01-01", shift |-> sh,
   status |-> "present", markedBy |-> mb]

BulkEntries ==
  {BulkEntry("L1", "morning", Undefined), BulkEntry("L1", "bogus", Undefined),
   BulkEntry("L2", "morning", EmptyString)}

BulkRequests == UNION {[1..n -> BulkEntries] : n \in 0..MaxBulk}

-----------------------------------------------------------------------------
(* Requests of the salary specification *)

\* Attendance is marked for the two labourers on two days.
SalaryMarkBodies ==
  {MarkBody(l, dt, "morning", "present") : l \in LabourerIds, dt \in {"2024-01-01", "2024-01-02"}}
    \cup {MarkBody("L1", "2024-01-01", "morning", "absent"),
          MarkBody("L1", "2024-01-02", "morning", "half-day")}

SalaryBody(l, sp, ep, wage, st, url) ==
  [labourerId |-> l, startPeriod |-> sp, endPeriod |-> ep,
   totalDaysPresent |-> JsNumber(1), dailyWage |-> wage, totalSalary |-> JsNumber(100),
   status |-> st, payslipUrl |-> url]

CreateSalaryBodies ==
  {SalaryBody(l, "2024-01-01", "2024-01-02", JsNumber(100), "pending", "https://p/1") :
     l \in LabourerIds}
    \cup {SalaryBody("L1", "2024-01-02", "2024-01-01", JsNumber(100), "pending", "https://p/1"),
          SalaryBody("L1", "2024-01-01", "2024-01-02", JsNumber(-1), "pending", "https://p/1"),
          SalaryBody("L1", "2024-01-01", "2024-01-02", JsNumber(100), "due", "https://p/1"),
          SalaryBody("L1", "2024-01-01", "2024-01-02", JsNumber(100), "pending", EmptyString),
          SalaryBody("L1", "2024-01-01", "2024-01-02", JsString, "pending", "https://p/1")}

NoSalaryUpdate ==
  [labourerId |-> Undefined, startPeriod |-> Undefined, endPeriod |-> Undefined,
   totalDaysPresent |-> JsUndefined, dailyWage |-> JsUndefined, totalSalary |-> JsUndefined,
   status |-> Undefined, payslipUrl |-> Undefined]

UpdateSalaryBodies ==
  {[NoSalaryUpdate EXCEPT !.labourerId = "L2"],
   [NoSalaryUpdate EXCEPT !.startPeriod = "2024-01-03"],
   [NoSalaryUpdate EXCEPT !.status = "paid"],
   [NoSalaryUpdate EXCEPT !.dailyWage = JsNumber(-1)],
   [NoSalaryUpdate EXCEPT !.payslipUrl = EmptyString]}

SalaryIdParams == SalaryIds \cup {NotAnId}

GenerateBody(sp, ep, wage) == [startPeriod |-> sp, endPeriod |-> ep, dailyWage |-> wage]

ValidGenerateBodies ==
  {GenerateBody("2024-01-01", "2024-01-02", JsNumber(100)),
   GenerateBody("2024-01-02", "2024-01-02", JsNumber(100)),
   GenerateBody("2024-01-01", "2024-01-02", JsNumber(0))}

GenerateBodies ==
  ValidGenerateBodies \cup
  {GenerateBody("2024-01-02", "2024-01-01", JsNumber(100)),
   GenerateBody("2024-01-01", Garbage, JsNumber(100)),
   GenerateBody("2024-01-01", "2024-01-02", JsNumber(-1)),
   GenerateBody("2024-01-01", "2024-01-02", JsString),
   GenerateBody("2024-01-01", "2024-01-02", JsUndefined),
   GenerateBody(Undefined, "2024-01-02", JsNumber(100)),
   GenerateBody("2024-01-01", Undefined, JsNumber(100))}

-----------------------------------------------------------------------------
(* Requests of the leave specification *)

LeaveBody(l, fd, td, reason) ==
  [labourerId |-> l, fromDate |-> fd, toDate |-> td, reason |-> reason]

ApplyBodies ==
  {LeaveBody(l, "2024-01-01", td, "fever") :
     l \in LabourerIds, td \in {"2024-01-01", "2024-01-03"}}
    \cup {LeaveBody("L1", "2024-01-02", "2024-01-01", "fever"),
          LeaveBody("L1", "2024-01-01", "2024-01-02", Blank),
          LeaveBody("L1", "2024-01-01", "2024-01-02", LongReason),
          LeaveBody(NotAnId, "2024-01-01", "2024-01-02", "fever"),
          LeaveBody("L1", Garbage, "2024-01-02", "fever")}

LeaveIdParams == LeaveIds \cup {NotAnId}

Reviewers == UserIds \cup {Undefined, NotAnId}

-----------------------------------------------------------------------------
(* The collections the list endpoints read, and their queries *)

DayText(n) == CASE n = 1 -> "2024-01-01" [] n = 2 -> "2024-01-02" [] OTHER -> "2024-01-03"

ListedLabourer(i) == IF i = 2 THEN "L2" ELSE "L1"

\* The i-th attendance marked: L1 present, L2 absent, L1 half-day, L1 present, ...
ListedMark(i) ==
  [MarkBody(ListedLabourer(i), DayText(((i - 1) % 3) + 1),
            IF i > 3 THEN "evening" ELSE "morning",
            CASE i % 3 = 1 -> "present" [] i % 3 = 2 -> "absent" [] OTHER -> "half-day")
     EXCEPT !.markedBy = IF i = 1 THEN "U1" ELSE Undefined]

\* The periods [1,1], [2,3], [1,3], [3,3], ... of the i-th salary and leave.
ListedStart(i) == CASE i % 4 = 1 -> 1 [] i % 4 = 2 -> 2 [] i % 4 = 3 -> 1 [] OTHER -> 3
ListedEnd(i) == IF i % 4 = 1 THEN 1 ELSE 3

ListedSalary(i) ==
  SalaryBody(ListedLabourer(i), DayText(ListedStart(i)), DayText(ListedEnd(i)),
             JsNumber(100), IF i % 2 = 0 THEN "paid" ELSE "pending", "https://p/1")

ListedLeave(i) ==
  [labourerId |-> ListedLabourer(i), fromDate |-> DayText(ListedStart(i)),
   toDate |-> DayText(ListedEnd(i)), reason |-> "fever"]

\* The i-th user document (password and phone left out); n orders createdAt.
ListedUser(i) ==
  [_id |-> "U" \o ToString(i), n |-> i, name |-> "user", email |-> "u" \o ToString(i),
   role |-> CASE i % 3 = 1 -> "admin" [] i % 3 = 2 -> "labourer" [] OTHER -> "manager"]

\* The collections after the first k requests of each kind: attendance marked,
\* salaries created, leaves applied for (every second one approved, every
\* third one rejected).
RECURSIVE attendanceListed(_)
attendanceListed(k) ==
  IF k = 0 THEN {}
  ELSE LET before == attendanceListed(k - 1) IN
       markAttendanceResult(before, AttId(Cardinality(before) + 1), ListedMark(k)).att

RECURSIVE salaryListed(_)
salaryListed(k) ==
  IF k = 0 THEN {}
  ELSE LET before == salaryListed(k - 1) IN
       createSalaryRecordResult(before, SalId(Cardinality(before) + 1), ListedSalary(k)).sal

RECURSIVE leavesListed(_)
leavesListed(k) ==
  IF k = 0 THEN {}
  ELSE LET before == leavesListed(k - 1)
           id == LeaveId(Cardinality(before) + 1)
           applied == applyForLeaveResult(before, id, ListedLeave(k)).lv IN
       IF k % 2 = 0 THEN approveLeaveResult(applied, id, "U1").lv
       ELSE IF k % 3 = 0 THEN rejectLeaveResult(applied, id, "U2").lv
       ELSE applied

usersListed(k) == {ListedUser(i) : i \in 1..k}

ListInit ==
  \E k \in 0..MaxListed :
    /\ attendance = attendanceListed(k)
    /\ nextAttId = Cardinality(attendanceListed(k)) + 1
    /\ salary = salaryListed(k)
    /\ nextSalId = Cardinality(salaryListed(k)) + 1
    /\ leaves = leavesListed(k)
    /\ nextLeaveId = Cardinality(leavesListed(k)) + 1
    /\ users = usersListed(k)
    /\ nextUserId = k + 1
    /\ notifications = {}
    /\ nextNotifId = 1
    /\ performance = {}
    /\ nextPerfId = 1
    /\ projects = {}
    /\ nextProjId = 1
    /\ labourers = {}
    /\ nextLabId = 1
    /\ inflight = [p \in {1, 2} |-> [stage |-> "idle"]]
    /\ resp = Response("none", 0, NoBody)

NoQuery ==
  [labourerId |-> Undefined, projectId |-> Undefined, status |-> Undefined,
   shift |-> Undefined, markedBy |-> Undefined, reviewedBy |-> Undefined,
   startDate |-> Undefined, endDate |-> Undefined,
   startPeriod |-> Undefined, endPeriod |-> Undefined,
   fromDate |-> Undefined, toDate |-> Undefined, paymentDate |-> Undefined,
   role |-> Undefined, page |-> Undefined, limit |-> Undefined]

PageValues == {Undefined, "1", "2", "3", "0", "-1", "abc", "2abc"}
LimitValues == {Undefined, "1", "2", "0", "-2", "abc"}

PagingQueries == {[NoQuery EXCEPT !.page = p, !.limit = l] : p \in PageValues, l \in LimitValues}

\* The list endpoints with their paging.
PageNext ==
  \/ \E q \in PagingQueries : getAttendanceByLabourer("L1", q)
  \/ \E q \in PagingQueries : getAttendanceByProject("P1", q)
  \/ \E q \in PagingQueries, sq \in StrictQueryOutcomes : listSalaryRecords(q, sq)
  \/ \E u \in users, q \in PagingQueries : listAllUsers(u, q)
  \/ \E q \in PagingQueries : listProjectsByLabourer("L1", q)

PageSpec == ListInit /\ [][PageNext]_vars

DateValues == {Undefined, "2024-01-01", "2024-01-02", "2024-01-03", Garbage}

\* Queries with one window: its two bounds absent, a day, or no date at all.
AttendanceDateQueries ==
  {[NoQuery EXCEPT !.startDate = a, !.endDate = b] : a \in DateValues, b \in DateValues}
SalaryPeriodQueries ==
  {[NoQuery EXCEPT !.startPeriod = a, !.endPeriod = b] : a \in DateValues, b \in DateValues}
LeaveWindowQueries ==
  {[NoQuery EXCEPT !.fromDate = a, !.toDate = b] : a \in DateValues, b \in DateValues}

\* Queries with one identifier or enum filter, well-formed or not.
AttendanceFilterQueries ==
  {[NoQuery EXCEPT !.projectId = v] : v \in {"P1", NotAnId}}
    \cup {[NoQuery EXCEPT !.labourerId = v] : v \in {"L2", NotAnId}}
    \cup {[NoQuery EXCEPT !.markedBy = v] : v \in {"U1", NotAnId}}
    \cup {[NoQuery EXCEPT !.status = v] : v \in {"absent", "bogus"}}
    \cup {[NoQuery EXCEPT !.shift = v] : v \in {"evening", "bogus"}}
SalaryFilterQueries ==
  {[NoQuery EXCEPT !.labourerId = v] : v \in {"L2", NotAnId}}
    \cup {[NoQuery EXCEPT !.status = v] : v \in {"paid", "bogus"}}
    \cup {[NoQuery EXCEPT !.paymentDate = v] : v \in {"2024-01-01", Garbage}}
LeaveFilterQueries ==
  {[NoQuery EXCEPT !.labourerId = v] : v \in {"L2", NotAnId}}
    \cup {[NoQuery EXCEPT !.reviewedBy = v] : v \in {"U1", NotAnId}}
    \cup {[NoQuery EXCEPT !.status = v] : v \in {"approved", "bogus"}}

\* The list and summary endpoints with their filters.
FilterNext ==
  \/ \E q \in AttendanceDateQueries \cup AttendanceFilterQueries : getAttendanceByLabourer("L1", q)
  \/ \E q \in AttendanceDateQueries \cup AttendanceFilterQueries : getAttendanceByProject("P1", q)
  \/ \E q \in AttendanceDateQueries, oc \in ObjectIdCallOutcomes :
       getLabourerAttendanceSummary("L1", q, oc)
  \/ \E q \in AttendanceDateQueries, oc \in ObjectIdCallOutcomes :
       getProjectAttendanceSummary("P1", q, oc)
  \/ \E q \in SalaryPeriodQueries \cup SalaryFilterQueries, sq \in StrictQueryOutcomes :
       listSalaryRecords(q, sq)
  \/ \E q \in SalaryPeriodQueries \cup SalaryFilterQueries :
       viewSalaryPayslipDetailsForLabourer("L1", q)
  \/ \E q \in SalaryPeriodQueries, oc \in ObjectIdCallOutcomes :
       salarySummaryByLabourer("L1", q, oc)
  \/ \E q \in SalaryPeriodQueries : salarySummaryByPeriod(q)
  \/ \E q \in LeaveWindowQueries \cup LeaveFilterQueries : listLeaveRequests(q)
  \/ \E q \in LeaveWindowQueries \cup LeaveFilterQueries : getLeaveStatusByLabourer("L1", q)

FilterSpec == ListInit /\ [][FilterNext]_vars

Init ==
  /\ attendance = {}
  /\ nextAttId = 1
  /\ salary = {}
  /\ nextSalId = 1
  /\ leaves = {}
  /\ nextLeaveId = 1
  /\ users = {}
  /\ nextUserId = 1
  /\ notifications = {}
  /\ nextNotifId = 1
  /\ performance = {}
  /\ nextPerfId = 1
  /\ projects = {}
  /\ nextProjId = 1
  /\ labourers = {}
  /\ nextLabId = 1
  /\ inflight = [p \in {1, 2} |-> [stage |-> "idle"]]
  /\ resp = Response("none", 0, NoBody)

Next ==
  \/ \E body \in MarkBodies : markAttendance(body)
  \/ \E id \in AttendanceIdParams, u \in UpdateBodies : updateAttendance(id, u)
  \/ \E id \in AttendanceIdParams : deleteAttendance(id)
  \/ \E recs \in BulkRequests :
       \E we \in SUBSET (0..(Len(insertManyUnorderedDocs(recs)) - 1)) :
          \E has \in (IF we = {} THEN {TRUE} ELSE BOOLEAN) :
             bulkAddAttendance(recs, we, has)

Spec == Init /\ [][Next]_vars

\* Two markAttendance requests interleaved at their awaits.
RaceNext ==
  \/ \E p \in {1, 2}, body \in MarkBodies : markAttendanceAwaitFindOne(p, body)
  \/ \E p \in {1, 2} : markAttendanceAwaitCreate(p)

RaceSpec == Init /\ [][RaceNext]_vars

\* The salary endpoints, with attendance marked in between.
SalaryNext ==
  \/ \E body \in SalaryMarkBodies : markAttendance(body)
  \/ \E body \in CreateSalaryBodies : createSalaryRecord(body)
  \/ \E id \in SalaryIdParams, u \in UpdateSalaryBodies : updateSalaryRecord(id, u)
  \/ \E body \in GenerateBodies : generateSalaryForPeriod(body)
  \/ \E id \in SalaryIdParams, pd \in {Undefined, Garbage} : markSalaryAsPaid(id, pd)
  \/ \E id \in SalaryIdParams : deleteSalaryRecord(id)

SalarySpec == Init /\ [][SalaryNext]_vars

\* The leave endpoints.
LeaveNext ==
  \/ \E body \in ApplyBodies : applyForLeave(body)
  \/ \E id \in LeaveIdParams, r \in Reviewers : approveLeave(id, r)
  \/ \E id \in LeaveIdParams, r \in Reviewers : rejectLeave(id, r)
  \/ \E id \in LeaveIdParams : cancelLeaveRequest(id)
  \/ \E id \in LeaveIdParams, remark \in {"ok", Blank} : addRemarkToLeaveRequest(id, remark)

LeaveSpec == Init /\ [][LeaveNext]_vars

-----------------------------------------------------------------------------
(* Authentication and authorisation (middlewares/auth.js) on the leave      *)
(* routes (routes/leave.routes.js)                                          *)

\* A userToken cookie signed with JWT_SECRET for the user _id.
Token(id) == "jwt:" \o id

TokenSubjects == {"U1", "U2", "U3", "U9"}

\* The cookie of a request: absent, a string jwt.verify rejects, or a token.
Tokens == {Undefined, "forged"} \cup {Token(id) : id \in TokenSubjects}

\* jwt.verify(userToken, JWT_SECRET): the _id the token was signed for; no
\* subject when verification throws.
jwtVerify(userToken) == {id \in TokenSubjects : userToken = Token(id)}

\* User.findById(_id): the document, or null (no document).
findById(us, ids) == {u \in us : u._id \in ids}

\* isAuthenticated: ends the request through next(error), or sets req.user
\* (possibly null) and calls next().
isAuthenticatedResult(us, userToken) ==
  IF ~Truthy(userToken)
    THEN [next |-> "error", code |-> 400, error |-> "Please LogIn", user |-> {}]
  ELSE IF jwtVerify(userToken) = {}
    THEN [next |-> "error", code |-> 500, error |-> "Error in Authentication", user |-> {}]
  ELSE [next |-> "next", code |-> 0, error |-> "", user |-> findById(us, jwtVerify(userToken))]

\* isAuthorized(...roles): reading req.user.role of a null req.user throws.
isAuthorizedResult(roles, user) ==
  IF user = {}
    THEN [next |-> "error", code |-> 500, error |-> "TypeError"]
  ELSE LET reqUser == CHOOSE u \in user : TRUE IN
       IF reqUser.role \notin roles
         THEN [next |-> "error", code |-> 401, error |-> "UnAuthorized Access : " \o reqUser.role]
         ELSE [next |-> "next", code |-> 0, error |-> ""]

\* router.METHOD(path, isAuthenticated, isAuthorized(...roles), controller):
\* the middleware that ends the request, or "controller".
guardResult(us, userToken, roles) ==
  LET authenticated == isAuthenticatedResult(us, userToken)
      authorized == isAuthorizedResult(roles, authenticated.user) IN
  IF authenticated.next = "error"
    THEN [by |-> "isAuthenticated", code |-> authenticated.code, error |-> authenticated.error]
  ELSE IF authorized.next = "error"
    THEN [by |-> "isAuthorized", code |-> authorized.code, error |-> authorized.error]
  ELSE [by |-> "controller", code |-> 0, error |-> ""]

\* The error handler answers for the middleware; nothing is read or written.
guardRefuses(g) ==
  /\ resp' = Response(g.by, g.code, [error |-> g.error])
  /\ UNCHANGED <<otherStores, users, attendance, nextAttId, salary, nextSalId, leaves, nextLeaveId, inflight>>

applyRoles == {"labourer"}

reviewRoles == {"admin", "manager"}

\* POST /apply
postApply(userToken, body) ==
  LET g == guardResult(users, userToken, applyRoles) IN
  IF g.by = "controller" THEN applyForLeave(body) ELSE guardRefuses(g)

\* PATCH /:id/approve
patchApprove(userToken, id, reviewedBy) ==
  LET g == guardResult(users, userToken, reviewRoles) IN
  IF g.by = "controller" THEN approveLeave(id, reviewedBy) ELSE guardRefuses(g)

\* PATCH /:id/reject
patchReject(userToken, id, reviewedBy) ==
  LET g == guardResult(users, userToken, reviewRoles) IN
  IF g.by = "controller" THEN rejectLeave(id, reviewedBy) ELSE guardRefuses(g)

GuardedApplyBodies ==
  {LeaveBody("L1", "2024-01-01", "2024-01-03", "fever"),
   LeaveBody("L2", "2024-01-01", "2024-01-01", "fever"),
   LeaveBody("L1", "2024-01-02", "2024-01-01", "fever")}

GuardedLeaveIds == {LeaveId(1), LeaveId(2), NotAnId}

AuthInit ==
  \E k \in 0..MaxListed :
    /\ users = usersListed(k)
    /\ nextUserId = k + 1
    /\ notifications = {}
    /\ nextNotifId = 1
    /\ performance = {}
    /\ nextPerfId = 1
    /\ projects = {}
    /\ nextProjId = 1
    /\ labourers = {}
    /\ nextLabId = 1
    /\ attendance = {}
    /\ nextAttId = 1
    /\ salary = {}
    /\ nextSalId = 1
    /\ leaves = {}
    /\ nextLeaveId = 1
    /\ inflight = [p \in {1, 2} |-> [stage |-> "idle"]]
    /\ resp = Response("none", 0, NoBody)

AuthNext ==
  \/ \E t \in Tokens, body \in GuardedApplyBodies : postApply(t, body)
  \/ \E t \in Tokens, id \in GuardedLeaveIds : patchApprove(t, id, "U1")
  \/ \E t \in Tokens, id \in GuardedLeaveIds : patchReject(t, id, "U1")

AuthSpec == AuthInit /\ [][AuthNext]_vars

-----------------------------------------------------------------------------
(* Notifications model (notifications.model.js) and controller              *)

allowedNotificationTypes == {"email", "sms"}

allowedNotificationStatus == {"sent", "failed"}

\* The paths notificationsSchema declares, next to _id.  A document read from
\* the store can carry other properties in memory (deleted); save() writes the
\* declared paths only.
notificationsSchemaPaths == {"userId", "message", "type", "status", "createdAt"}

\* Validation of a document about to be written: message, type and status are
\* required, type and status are enumerations.
notificationsSchemaValid(d) ==
  /\ d.message # EmptyString
  /\ d.type \in allowedNotificationTypes
  /\ d.status \in allowedNotificationStatus

\* notification.save(): the stored document takes the declared paths of the
\* document in memory and keeps everything else as stored.
notificationSave(ns, doc) ==
  {IF d._id = doc._id
     THEN [d EXCEPT !.userId = doc.userId, !.message = doc.message, !.type = doc.type,
                    !.status = doc.status, !.createdAt = doc.createdAt]
     ELSE d : d \in ns}

NotificationError(code, msg, ns) == [code |-> code, ns |-> ns, body |-> [error |-> msg]]

createNotificationResult(ns, n, body) ==
  IF ~Truthy(body.userId) \/ ~Truthy(body.message) \/ ~Truthy(body.type) \/ ~Truthy(body.status)
    THEN NotificationError(400, "userId, message, type, and status are required", ns)
  ELSE IF ~IsValidObjectId(body.userId) THEN NotificationError(400, "Invalid userId", ns)
  ELSE IF body.type \notin allowedNotificationTypes
    THEN NotificationError(400, "Type must be one of: email, sms", ns)
  ELSE IF body.status \notin allowedNotificationStatus
    THEN NotificationError(400, "Status must be one of: sent, failed", ns)
  ELSE
    LET doc == [_id |-> NotifId(n), userId |-> body.userId, message |-> Trim(body.message),
                type |-> body.type, status |-> body.status, createdAt |-> n,
                deleted |-> Undefined] IN
    IF ~notificationsSchemaValid(doc) THEN NotificationError(500, "store error", ns)
    ELSE [code |-> 201, ns |-> ns \cup {doc}, body |-> [notification |-> doc]]

createNotification(body) ==
  LET r == createNotificationResult(notifications, nextNotifId, body) IN
  /\ r.code = 201 => nextNotifId <= MaxNotif
  /\ notifications' = r.ns
  /\ nextNotifId' = IF r.code = 201 THEN nextNotifId + 1 ELSE nextNotifId
  /\ resp' = Response("createNotification", r.code, r.body)
  /\ UNCHANGED <<attendance, nextAttId, salary, nextSalId, leaves, nextLeaveId, users,
                 performance, nextPerfId, nextUserId, inflight,
                 projects, nextProjId, labourers, nextLabId>>

notificationsNewestFirst(docs) == sortDescending({<<(<<d.createdAt>>), d>> : d \in docs})

\* filters.deleted = { $ne: true }: deleted is no path of the schema; the
\* filter is removed by strictQuery or kept and compared with the stored value.
notDeletedFilter(d, strictQuery) ==
  strictQuery = "filter kept" => d.deleted # "true"

\* userIds is the set of ids req.query.userIds splits into (empty when absent).
listNotificationsByUserResult(ns, q, strictQuery) ==
  LET paging == Paging(parseIntPositiveOr(queryDefault(q.page, DefaultPage), DefaultPage),
                       parseIntPositiveOr(queryDefault(q.limit, DefaultLimit), DefaultLimit))
      idsArray == q.userIds IN
  IF Truthy(q.userId) /\ ~IsValidObjectId(q.userId) THEN ClientError("Invalid userId")
  ELSE IF ~Truthy(q.userId) /\ \E id \in idsArray : ~IsValidObjectId(id)
    THEN ClientError("Invalid userId in userIds")
  ELSE IF Truthy(q.type) /\ q.type \notin allowedNotificationTypes
    THEN ClientError("type must be one of: email, sms")
  ELSE IF Truthy(q.status) /\ q.status \notin allowedNotificationStatus
    THEN ClientError("status must be one of: sent, failed")
  ELSE IF Truthy(q.startDate) /\ ParseDate(q.startDate) = NaNDate
    THEN ClientError("Invalid startDate")
  ELSE IF Truthy(q.endDate) /\ ParseDate(q.endDate) = NaNDate THEN ClientError("Invalid endDate")
  ELSE
    LET matches == {d \in ns :
                      /\ Truthy(q.userId) => d.userId = q.userId
                      /\ (~Truthy(q.userId) /\ q.userIds # {}) => d.userId \in idsArray
                      /\ Truthy(q.type) => d.type = q.type
                      /\ Truthy(q.status) => d.status = q.status
                      /\ Truthy(q.startDate) => d.createdAt >= ParseDate(q.startDate)
                      /\ Truthy(q.endDate) => d.createdAt <= ParseDate(q.endDate)
                      /\ notDeletedFilter(d, strictQuery)} IN
    listResult(notificationsNewestFirst(matches), paging)

listNotificationsByUser(q, strictQuery) ==
  LET r == listNotificationsByUserResult(notifications, q, strictQuery) IN
  /\ resp' = Response("listNotificationsByUser", r.code, r.body)
  /\ UNCHANGED <<attendance, nextAttId, salary, nextSalId, leaves, nextLeaveId, users,
                 otherStores, inflight>>

updateNotificationStatusResult(ns, id, status) ==
  IF ~IsValidObjectId(id) THEN NotificationError(400, "Invalid notification ID", ns)
  ELSE IF ~Truthy(status) \/ status \notin {"sent", "failed", "read"}
    THEN NotificationError(400, "Status is required and must be one of: sent, failed, read", ns)
  ELSE IF ~\E d \in ns : d._id = id THEN NotificationError(404, "Notification not found", ns)
  ELSE
    LET notification == CHOOSE d \in ns : d._id = id
        changed == [notification EXCEPT !.status = status] IN
    IF ~notificationsSchemaValid(changed) THEN NotificationError(500, "store error", ns)
    ELSE [code |-> 200, ns |-> notificationSave(ns, changed),
          body |-> [notification |-> changed]]

updateNotificationStatus(id, status) ==
  LET r == updateNotificationStatusResult(notifications, id, status) IN
  /\ notifications' = r.ns
  /\ resp' = Response("updateNotificationStatus", r.code, r.body)
  /\ UNCHANGED <<attendance, nextAttId, salary, nextSalId, leaves, nextLeaveId, users,
                 nextNotifId, performance, nextPerfId, nextUserId, inflight,
                 projects, nextProjId, labourers, nextLabId>>

\* deleteNotification without the owner-or-admin check.
deleteNotificationResultByAnyone(ns, id, reqUser) ==
  IF reqUser = {} THEN NotificationError(500, "TypeError", ns)
  ELSE IF ~IsValidObjectId(id) THEN NotificationError(400, "Invalid notification ID", ns)
  ELSE IF ~\E d \in ns : d._id = id THEN NotificationError(404, "Notification not found", ns)
  ELSE
    LET notification == CHOOSE d \in ns : d._id = id
        changed == [notification EXCEPT !.deleted = "true"] IN
    IF ~notificationsSchemaValid(changed) THEN NotificationError(500, "store error", ns)
    ELSE [code |-> 200, ns |-> notificationSave(ns, changed),
          body |-> [error |-> "Notification deleted successfully"]]

\* reqUser is req.user: the set holding the user, empty when req.user is null
\* (reading req.user.id then throws).
deleteNotificationResult(ns, id, reqUser) ==
  IF reqUser = {} THEN NotificationError(500, "TypeError", ns)
  ELSE IF ~IsValidObjectId(id) THEN NotificationError(400, "Invalid notification ID", ns)
  ELSE IF ~\E d \in ns : d._id = id THEN NotificationError(404, "Notification not found", ns)
  ELSE
    LET notification == CHOOSE d \in ns : d._id = id
        user == CHOOSE u \in reqUser : TRUE
        isOwner == notification.userId = user._id
        isAdmin == user.role = "admin"
        changed == [notification EXCEPT !.deleted = "true"] IN
    IF ~isOwner /\ ~isAdmin
      THEN NotificationError(403, "Not authorized to delete this notification", ns)
    ELSE IF ~notificationsSchemaValid(changed) THEN NotificationError(500, "store error", ns)
    ELSE [code |-> 200, ns |-> notificationSave(ns, changed),
          body |-> [error |-> "Notification deleted successfully"]]

\* DELETE /:id behind isAuthenticated
deleteNotification(userToken, id) ==
  LET authenticated == isAuthenticatedResult(users, userToken)
      r == deleteNotificationResult(notifications, id, authenticated.user) IN
  IF authenticated.next = "error"
    THEN guardRefuses([by |-> "isAuthenticated", code |-> authenticated.code,
                       error |-> authenticated.error])
    ELSE /\ notifications' = r.ns
         /\ resp' = Response("deleteNotification", r.code,
                             [error |-> r.body.error, id |-> id, userToken |-> userToken])
         /\ UNCHANGED <<attendance, nextAttId, salary, nextSalId, leaves, nextLeaveId, users,
                        nextNotifId, performance, nextPerfId, nextUserId, inflight,
                 projects, nextProjId, labourers, nextLabId>>

NotificationBody(u, m, t, st) == [userId |-> u, message |-> m, type |-> t, status |-> st]

NotificationBodies ==
  {NotificationBody(u, "hello", "email", "sent") : u \in UserIds}
    \cup {NotificationBody("U1", Blank, "sms", "failed"),
          NotificationBody(NotAnId, "hello", "email", "sent"),
          NotificationBody("U1", "hello", "push", "sent"),
          NotificationBody("U1", Undefined, "email", "sent")}

NoNotificationQuery ==
  [userId |-> Undefined, userIds |-> {}, type |-> Undefined, status |-> Undefined,
   startDate |-> Undefined, endDate |-> Undefined, page |-> Undefined, limit |-> Undefined]

NotificationQueries ==
  {NoNotificationQuery}
    \cup {[NoNotificationQuery EXCEPT !.userId = u] : u \in {"U1", "U2", NotAnId}}
    \cup {[NoNotificationQuery EXCEPT !.userIds = {"U1", "U2"}],
          [NoNotificationQuery EXCEPT !.status = "read"],
          [NoNotificationQuery EXCEPT !.type = "sms"]}

NotificationIdParams == {NotifId(1), NotifId(2), NotAnId}

NotificationNext ==
  \/ \E body \in NotificationBodies : createNotification(body)
  \/ \E q \in NotificationQueries, sq \in StrictQueryOutcomes : listNotificationsByUser(q, sq)
  \/ \E id \in NotificationIdParams, st \in {"failed", "read", Undefined} :
       updateNotificationStatus(id, st)
  \/ \E t \in Tokens, id \in NotificationIdParams : deleteNotification(t, id)

NotificationSpec == AuthInit /\ [][NotificationNext]_vars

-----------------------------------------------------------------------------
(* Performance model (performance.model.js) and controller                  *)

PerformanceKey(d) == <<d.labourerId, d.projectId, d.date>>

LongRemarks == "remarks of 1001 characters"

\* Casting and validation on save: ObjectId paths cast (null passes), the date
\* must not be an invalid Date, performanceScore and remarks are required.
performanceSchemaValid(d) ==
  /\ d.labourerId = Null \/ IsValidObjectId(d.labourerId)
  /\ d.projectId = Null \/ IsValidObjectId(d.projectId)
  /\ d.date # NaNDate
  /\ d.performanceScore.t = "number"
  /\ d.remarks \notin {Null, EmptyString}

PerformanceError(code, msg, perf) == [code |-> code, perf |-> perf, body |-> [error |-> msg]]

\* The checks of a score and of remarks, shared by create and update; "" when
\* the value is accepted.
performanceScoreError(score) ==
  IF score.t # "number" \/ score.v < 0 \/ score.v > 100
    THEN "performanceScore must be a number between 0 and 100" ELSE ""

performanceRemarksError(remarks) ==
  IF remarks = Null \/ Trim(remarks) = EmptyString THEN "Remarks must be a non-empty string"
  ELSE IF remarks = LongRemarks THEN "Remarks must be at most 1000 characters long"
  ELSE ""

createPerformanceRecordResult(perf, n, body) ==
  IF \/ ~Truthy(body.labourerId) \/ ~Truthy(body.projectId) \/ ~Truthy(body.date)
     \/ body.performanceScore.t = "undefined" \/ ~Truthy(body.remarks)
    THEN PerformanceError(400, "required", perf)
  ELSE IF ~IsValidObjectId(body.labourerId) THEN PerformanceError(400, "Invalid labourerId", perf)
  ELSE IF ~IsValidObjectId(body.projectId) THEN PerformanceError(400, "Invalid projectId", perf)
  ELSE IF ParseDate(body.date) = NaNDate THEN PerformanceError(400, "Invalid date", perf)
  ELSE IF performanceScoreError(body.performanceScore) # ""
    THEN PerformanceError(400, performanceScoreError(body.performanceScore), perf)
  ELSE IF performanceRemarksError(body.remarks) # ""
    THEN PerformanceError(400, performanceRemarksError(body.remarks), perf)
  ELSE IF \E d \in perf : /\ d.labourerId = body.labourerId /\ d.projectId = body.projectId
                          /\ d.date = ParseDate(body.date)
    THEN PerformanceError(409, "already exists", perf)
  ELSE
    LET doc == [_id |-> PerfId(n), labourerId |-> body.labourerId,
                projectId |-> body.projectId, date |-> ParseDate(body.date),
                performanceScore |-> body.performanceScore, remarks |-> Trim(body.remarks)] IN
    IF ~performanceSchemaValid(doc) THEN PerformanceError(500, "store error", perf)
    ELSE [code |-> 201, perf |-> perf \cup {doc}, body |-> [error |-> ""]]

createPerformanceRecord(body) ==
  LET r == createPerformanceRecordResult(performance, nextPerfId, body) IN
  /\ r.code = 201 => nextPerfId <= MaxPerf
  /\ performance' = r.perf
  /\ nextPerfId' = IF r.code = 201 THEN nextPerfId + 1 ELSE nextPerfId
  /\ resp' = Response("createPerformanceRecord", r.code, r.body)
  /\ UNCHANGED <<attendance, nextAttId, salary, nextSalId, leaves, nextLeaveId, users,
                 notifications, nextNotifId, nextUserId, inflight,
                 projects, nextProjId, labourers, nextLabId>>

\* Step 6: the duplicate check runs only when a key field of the update is
\* truthy, with each key field taken from the update when truthy there.
updatePerformanceConflict(perf, doc, u) ==
  /\ Truthy(u.labourerId) \/ Truthy(u.projectId) \/ Truthy(u.date)
  /\ \E d \in perf :
        /\ d._id # doc._id
        /\ d.labourerId = (IF Truthy(u.labourerId) THEN u.labourerId ELSE doc.labourerId)
        /\ d.projectId = (IF Truthy(u.projectId) THEN u.projectId ELSE doc.projectId)
        /\ d.date = (IF Truthy(u.date) THEN ParseDate(u.date) ELSE doc.date)

\* Steps 7-8: Object.assign(performanceRecord, updates) with every field that
\* is not undefined, cast by the schema on save.
updatePerformanceAssign(doc, u) ==
  [_id |-> doc._id,
   labourerId |-> IF u.labourerId # Undefined THEN u.labourerId ELSE doc.labourerId,
   projectId |-> IF u.projectId # Undefined THEN u.projectId ELSE doc.projectId,
   date |-> IF u.date # Undefined THEN castDate(u.date) ELSE doc.date,
   performanceScore |-> IF u.performanceScore.t # "undefined" THEN u.performanceScore
                        ELSE doc.performanceScore,
   remarks |-> IF u.remarks # Undefined THEN Trim(u.remarks) ELSE doc.remarks]

updatePerformanceRecordResult(perf, id, u) ==
  IF ~IsValidObjectId(id) THEN PerformanceError(400, "Invalid performance record ID", perf)
  ELSE IF Truthy(u.labourerId) /\ ~IsValidObjectId(u.labourerId)
    THEN PerformanceError(400, "Invalid labourerId", perf)
  ELSE IF Truthy(u.projectId) /\ ~IsValidObjectId(u.projectId)
    THEN PerformanceError(400, "Invalid projectId", perf)
  ELSE IF Truthy(u.date) /\ ParseDate(u.date) = NaNDate
    THEN PerformanceError(400, "Invalid date", perf)
  ELSE IF u.performanceScore.t # "undefined" /\ performanceScoreError(u.performanceScore) # ""
    THEN PerformanceError(400, performanceScoreError(u.performanceScore), perf)
  ELSE IF u.remarks # Undefined /\ performanceRemarksError(u.remarks) # ""
    THEN PerformanceError(400, performanceRemarksError(u.remarks), perf)
  ELSE IF ~\E d \in perf : d._id = id
    THEN PerformanceError(404, "Performance record not found", perf)
  ELSE
    LET doc == CHOOSE d \in perf : d._id = id
        new == updatePerformanceAssign(doc, u) IN
    IF updatePerformanceConflict(perf, doc, u)
      THEN PerformanceError(409, "Another performance record exists", perf)
    ELSE IF ~performanceSchemaValid(new) THEN PerformanceError(500, "store error", perf)
    ELSE [code |-> 200, perf |-> (perf \ {doc}) \cup {new}, body |-> [error |-> ""]]

updatePerformanceRecord(id, u) ==
  LET r == updatePerformanceRecordResult(performance, id, u) IN
  /\ performance' = r.perf
  /\ resp' = Response("updatePerformanceRecord", r.code, r.body)
  /\ UNCHANGED <<attendance, nextAttId, salary, nextSalId, leaves, nextLeaveId, users,
                 notifications, nextNotifId, nextPerfId, nextUserId, inflight,
                 projects, nextProjId, labourers, nextLabId>>

deletePerformanceRecordResult(perf, id) ==
  IF ~IsValidObjectId(id) THEN PerformanceError(400, "Invalid performance record ID", perf)
  ELSE IF ~\E d \in perf : d._id = id
    THEN PerformanceError(404, "Performance record not found", perf)
  ELSE [code |-> 200, perf |-> {d \in perf : d._id # id}, body |-> [error |-> ""]]

deletePerformanceRecord(id) ==
  LET r == deletePerformanceRecordResult(performance, id) IN
  /\ performance' = r.perf
  /\ resp' = Response("deletePerformanceRecord", r.code, r.body)
  /\ UNCHANGED <<attendance, nextAttId, salary, nextSalId, leaves, nextLeaveId, users,
                 notifications, nextNotifId, nextPerfId, nextUserId, inflight,
                 projects, nextProjId, labourers, nextLabId>>

PerformanceBody(l, p, dt, score, remarks) ==
  [labourerId |-> l, projectId |-> p, date |-> dt, performanceScore |-> score,
   remarks |-> remarks]

PerformanceBodies ==
  {PerformanceBody(l, "P1", dt, JsNumber(80), "good") :
     l \in LabourerIds, dt \in {"2024-01-01", "2024-01-02"}}
    \cup {PerformanceBody(NotAnId, "P1", "2024-01-01", JsNumber(80), "good"),
          PerformanceBody("L1", "P1", Garbage, JsNumber(80), "good"),
          PerformanceBody("L1", "P1", "2024-01-01", JsNumber(101), "good"),
          PerformanceBody("L1", "P1", "2024-01-01", JsString, "good"),
          PerformanceBody("L1", "P1", "2024-01-01", JsNumber(80), Blank),
          PerformanceBody("L1", "P1", "2024-01-01", JsNumber(80), LongRemarks),
          PerformanceBody("L1", Undefined, "2024-01-01", JsNumber(80), "good")}

NoPerformanceUpdate ==
  [labourerId |-> Undefined, projectId |-> Undefined, date |-> Undefined,
   performanceScore |-> JsUndefined, remarks |-> Undefined]

PerformanceUpdates ==
  {NoPerformanceUpdate}
    \cup {[NoPerformanceUpdate EXCEPT !.date = v] : v \in {"2024-01-01", "2024-01-02", Null, Garbage}}
    \cup {[NoPerformanceUpdate EXCEPT !.labourerId = v] : v \in {"L2", Null, NotAnId}}
    \cup {[NoPerformanceUpdate EXCEPT !.performanceScore = v] : v \in {JsNumber(50), JsNumber(101)}}
    \cup {[NoPerformanceUpdate EXCEPT !.remarks = v] : v \in {"fair", Blank}}

PerformanceIdParams == {PerfId(1), PerfId(2), NotAnId}

PerformanceNext ==
  \/ \E body \in PerformanceBodies : createPerformanceRecord(body)
  \/ \E id \in PerformanceIdParams, u \in PerformanceUpdates : updatePerformanceRecord(id, u)
  \/ \E id \in PerformanceIdParams : deletePerformanceRecord(id)

PerformanceSpec == Init /\ [][PerformanceNext]_vars

-----------------------------------------------------------------------------
(* User model (user.model.js) and the register and updateUser handlers      *)

MaxUser == 2

\* userSchema: name, email (unique index), password, phone, role.  username
\* and avatar are no paths of the schema, so create() and save() drop them.
allowedUserRoles == {"admin", "manager", "labourer"}

userSchemaValid(d) ==
  /\ Truthy(d.name)
  /\ Truthy(d.email)
  /\ d.role \in allowedUserRoles

\* The unique index on email refuses a second document with the same value.
emailIndexRefuses(us, d) == \E u \in us : u._id # d._id /\ u.email = d.email

UserError(code, msg, us) == [code |-> code, us |-> us, body |-> [error |-> msg]]

\* User.findOne({ $or: [{ username }, { email }] }) with the values of the
\* body as they came: username is no schema path, so the clause is either
\* dropped from the filter (an empty clause matches every document) or kept
\* (no stored document has the field).
registerExisting(us, body, strictQuery) ==
  {u \in us : \/ strictQuery = "filter removed"
              \/ u.email = body.email}

\* generateAccessAndRefreshTokens calls user.generateAccessToken(), which the
\* schema does not define: the TypeError is caught and rethrown as a 500 after
\* the document was created.
registerResult(us, n, body, strictQuery) ==
  IF ~Truthy(body.name) \/ ~Truthy(body.username) \/ ~Truthy(body.email)
       \/ ~Truthy(body.password) \/ ~Truthy(body.phone)
    THEN UserError(400, "All Fields Required", us)
  ELSE IF registerExisting(us, body, strictQuery) # {}
    THEN UserError(409, "Email or Username already exists", us)
  ELSE
    LET doc == [_id |-> "U" \o ToString(n), n |-> n, name |-> body.name,
                email |-> ToLowerCase(body.email),
                role |-> IF body.role = Undefined THEN "labourer" ELSE body.role] IN
    IF ~userSchemaValid(doc) THEN UserError(500, "ValidationError", us)
    ELSE IF emailIndexRefuses(us, doc) THEN UserError(500, "E11000 duplicate key", us)
    ELSE UserError(500, "Something went wrong while generating referesh and access token",
                   us \cup {doc})

register(body, strictQuery) ==
  LET r == registerResult(users, nextUserId, body, strictQuery) IN
  /\ nextUserId <= MaxUser
  /\ users' = r.us
  /\ nextUserId' = IF r.us = users THEN nextUserId ELSE nextUserId + 1
  /\ resp' = Response("register", r.code, [error |-> r.body.error, request |-> body])
  /\ UNCHANGED <<attendance, nextAttId, salary, nextSalId, leaves, nextLeaveId,
                 notifications, nextNotifId, performance, nextPerfId, inflight,
                 projects, nextProjId, labourers, nextLabId>>

\* updateUser: reqUser is req.user as isAuthenticated left it ({} is null).
\* Of the allowed fields only name is a schema path the model keeps.
updateUserResult(us, reqUser, body, strictQuery) ==
  IF reqUser = {} THEN UserError(401, "User Authentication Failed", us)
  ELSE
    LET userId == (CHOOSE u \in reqUser : TRUE)._id
        existingUser == {u \in us : u._id # userId /\ strictQuery = "filter removed"}
        user == findById(us, {userId}) IN
    IF Truthy(body.username) /\ existingUser # {}
      THEN UserError(409, "Username already exists", us)
    ELSE IF user = {} THEN UserError(404, "User not found", us)
    ELSE
      LET doc == CHOOSE u \in user : TRUE
          updated == IF body.name = Undefined THEN doc ELSE [doc EXCEPT !.name = body.name] IN
      IF ~userSchemaValid(updated) THEN UserError(500, "ValidationError", us)
      ELSE UserError(200, "", (us \ {doc}) \cup {updated})

updateUser(userToken, body, strictQuery) ==
  LET authenticated == isAuthenticatedResult(users, userToken)
      r == updateUserResult(users, authenticated.user, body, strictQuery) IN
  IF authenticated.next = "error"
    THEN guardRefuses([by |-> "isAuthenticated", code |-> authenticated.code,
                       error |-> authenticated.error])
    ELSE /\ users' = r.us
         /\ resp' = Response("updateUser", r.code,
                             [error |-> r.body.error, userToken |-> userToken, request |-> body])
         /\ UNCHANGED <<otherStores, attendance, nextAttId, salary, nextSalId, leaves,
                        nextLeaveId, inflight>>

RegisterBody(name, username, email, role) ==
  [name |-> name, username |-> username, email |-> email, password |-> "secret",
   phone |-> "9876543210", role |-> role]

RegisterBodies ==
  {RegisterBody("user", un, em, Undefined) :
     un \in {"bob", "Bob", "amy"}, em \in {"a@x.com", "A@x.com", "b@x.com"}}
    \cup {RegisterBody(Undefined, "bob", "a@x.com", Undefined),
          RegisterBody("user", "amy", "b@x.com", "admin"),
          RegisterBody("user", "amy", "b@x.com", "owner")}

UpdateUserBodies ==
  {[name |-> nm, username |-> un] : nm \in {Undefined, "renamed", Null},
                                    un \in {Undefined, "bob"}}

UserTokens == {Undefined, Token("U1"), Token("U2")}

UserNext ==
  \/ \E body \in RegisterBodies, sq \in StrictQueryOutcomes : register(body, sq)
  \/ \E t \in UserTokens, body \in UpdateUserBodies, sq \in StrictQueryOutcomes :
       updateUser(t, body, sq)

UserSpec == Init /\ [][UserNext]_vars

-----------------------------------------------------------------------------
(* Project controller (project.controller.js) and Labourer controller       *)
(* (part_000).  A response of the Labourer controller carries the steps the *)
(* handler ran, in the order of the code.                                   *)

MaxProj == 1
MaxLab == 1

ProjId(n) == "P" \o ToString(n)
LabId(n) == "L" \o ToString(n)

\* projectSchema (performance.model.js:26-52): name, description and location
\* required, two dates, managerId, assignedLabourers; status is no path.
projectSchemaValid(d) ==
  /\ Truthy(d.name)
  /\ d.startDate # NaNDate /\ d.endDate # NaNDate
  /\ d.managerId \in {Undefined, Null} \/ IsValidObjectId(d.managerId)

\* new Date(v) of an optional field: undefined stays undefined.
OptionalDate(v) == IF v = Undefined THEN NullDate ELSE ParseDate(v)

ProjectError(code, msg) ==
  /\ resp' = Response("project", code, [error |-> msg])
  /\ UNCHANGED <<otherStores, attendance, nextAttId, salary, nextSalId, leaves, nextLeaveId,
                 users, inflight>>

ProjectUnchanged ==
  UNCHANGED <<attendance, nextAttId, salary, nextSalId, leaves, nextLeaveId, users, inflight,
              notifications, nextNotifId, performance, nextPerfId, nextUserId,
              labourers, nextLabId>>

\* Project.create: the document of a body.
createProjectDoc(n, body) ==
  [_id |-> ProjId(n), n |-> n, name |-> body.name,
   startDate |-> OptionalDate(body.startDate), endDate |-> OptionalDate(body.endDate),
   managerId |-> body.managerId, assignedLabourers |-> {}]

createProject(body) ==
  IF ~Truthy(body.name)
    THEN ProjectError(400, "Please provide name, description, and location")
  ELSE IF Truthy(body.startDate) /\ Truthy(body.endDate)
            /\ ParseDate(body.startDate) > ParseDate(body.endDate)
    THEN ProjectError(400, "startDate cannot be after endDate")
  ELSE IF Truthy(body.managerId) /\ ~IsValidObjectId(body.managerId)
    THEN ProjectError(400, "Invalid managerId")
  ELSE
    LET doc == createProjectDoc(nextProjId, body) IN
    IF ~projectSchemaValid(doc) THEN ProjectError(500, "ValidationError")
    ELSE /\ nextProjId <= MaxProj
         /\ projects' = projects \cup {doc}
         /\ nextProjId' = nextProjId + 1
         /\ resp' = Response("createProject", 201, [error |-> ""])
         /\ ProjectUnchanged

updateProject(id, body) ==
  IF ~IsValidObjectId(id) THEN ProjectError(400, "Invalid project ID")
  ELSE IF Truthy(body.startDate) /\ Truthy(body.endDate)
            /\ ParseDate(body.startDate) > ParseDate(body.endDate)
    THEN ProjectError(400, "startDate cannot be after endDate")
  ELSE IF Truthy(body.managerId) /\ ~IsValidObjectId(body.managerId)
    THEN ProjectError(400, "Invalid managerId")
  ELSE IF findById(projects, {id}) = {} THEN ProjectError(404, "Project not found")
  ELSE
    LET project == CHOOSE d \in projects : d._id = id
        assigned ==
          [project EXCEPT
             !.name = IF body.name = Undefined THEN @ ELSE body.name,
             !.startDate = IF body.startDate = Undefined THEN @ ELSE ParseDate(body.startDate),
             !.endDate = IF body.endDate = Undefined THEN @ ELSE ParseDate(body.endDate),
             !.managerId = IF body.managerId = Undefined THEN @ ELSE body.managerId] IN
    IF ~projectSchemaValid(assigned) THEN ProjectError(500, "ValidationError")
    ELSE /\ projects' = (projects \ {project}) \cup {assigned}
         /\ resp' = Response("updateProject", 200, [error |-> "", id |-> id])
         /\ UNCHANGED nextProjId
         /\ ProjectUnchanged

\* isArray is Array.isArray(assignedLabourers).
assignLabourersToProject(id, isArray, assignedLabourers) ==
  IF ~IsValidObjectId(id) THEN ProjectError(400, "Invalid project ID")
  ELSE IF ~isArray
    THEN ProjectError(400, "assignedLabourers must be an array")
  ELSE IF \E i \in DOMAIN assignedLabourers : ~IsValidObjectId(assignedLabourers[i])
    THEN ProjectError(400, "Invalid labourer ID")
  ELSE IF findById(projects, {id}) = {} THEN ProjectError(404, "Project not found")
  ELSE
    LET project == CHOOSE d \in projects : d._id = id IN
    /\ projects' = (projects \ {project})
                     \cup {[project EXCEPT !.assignedLabourers =
                                {assignedLabourers[i] : i \in DOMAIN assignedLabourers}]}
    /\ resp' = Response("assignLabourersToProject", 200, [error |-> "", id |-> id])
    /\ UNCHANGED nextProjId
    /\ ProjectUnchanged

changeProjectManager(id, managerId) ==
  IF ~IsValidObjectId(id) THEN ProjectError(400, "Invalid project ID")
  ELSE IF managerId \notin {Undefined, Null} /\ ~IsValidObjectId(managerId)
    THEN ProjectError(400, "Invalid managerId")
  ELSE IF findById(projects, {id}) = {} THEN ProjectError(404, "Project not found")
  ELSE
    LET project == CHOOSE d \in projects : d._id = id IN
    /\ projects' = (projects \ {project})
                     \cup {[project EXCEPT !.managerId =
                                IF managerId = Undefined THEN Null ELSE managerId]}
    /\ resp' = Response("changeProjectManager", 200, [error |-> "", id |-> id])
    /\ UNCHANGED nextProjId
    /\ ProjectUnchanged

\* deleteProject: "archive" sets project.status, which the schema does not
\* keep, and saves; anything else deletes the document.
deleteProject(id, action) ==
  IF ~IsValidObjectId(id) THEN ProjectError(400, "Invalid project ID")
  ELSE IF findById(projects, {id}) = {} THEN ProjectError(404, "Project not found")
  ELSE
    /\ projects' = IF action = "archive" THEN projects ELSE {d \in projects : d._id # id}
    /\ resp' = Response("deleteProject", 200, [error |-> "", id |-> id, action |-> action])
    /\ UNCHANGED nextProjId
    /\ ProjectUnchanged

allowedProjectStatuses == {"active", "completed", "pending", "cancelled", "archived"}

changeProjectStatus(id, status) ==
  IF ~IsValidObjectId(id) THEN ProjectError(400, "Invalid project ID")
  ELSE IF ~Truthy(status) \/ status \notin allowedProjectStatuses
    THEN ProjectError(400, "Status is required")
  ELSE IF findById(projects, {id}) = {} THEN ProjectError(404, "Project not found")
  ELSE
    /\ resp' = Response("changeProjectStatus", 200, [error |-> "", id |-> id, status |-> status])
    /\ UNCHANGED <<projects, nextProjId>>
    /\ ProjectUnchanged

allowedGenders == {"male", "female", "others"}
allowedLabourerStatuses == {"active", "inactive"}

\* The Labourer schema as the entity description gives it: status is one of
\* active and inactive (active when absent), the dates must be dates.
labourerSchemaValid(d) ==
  /\ d.status \in {Undefined} \cup allowedLabourerStatuses
  /\ d.gender \in allowedGenders
  /\ d.joiningDate # NaNDate

persistenceSteps ==
  {"Labourer.findOne", "Labourer.create", "Project.findById", "Labourer.findById",
   "labourer.save", "Labourer.findByIdAndDelete"}

LabourerResult(code, msg, labs, steps) ==
  [code |-> code, labs |-> labs, error |-> msg, steps |-> steps]

When(cond, step) == IF cond THEN <<step>> ELSE <<>>

\* createLabourer with Labourer.create run before the look for an existing
\* profile of the user.
createLabourerResultCreatingFirst(labs, n, body) ==
  LET doc == [_id |-> LabId(n), userId |-> body.userId, gender |-> body.gender,
              status |-> body.status, assignedProjectId |-> body.assignedProjectId,
              joiningDate |-> OptionalDate(body.joiningDate)] IN
  IF ~Truthy(body.fullName) \/ ~Truthy(body.gender)
    THEN LabourerResult(400, "Please provide all required labourer details", labs, <<>>)
  ELSE IF Truthy(body.userId) /\ ~IsValidObjectId(body.userId)
    THEN LabourerResult(400, "Invalid userId", labs, <<>>)
  ELSE IF Truthy(body.assignedProjectId) /\ ~IsValidObjectId(body.assignedProjectId)
    THEN LabourerResult(400, "Invalid assignedProjectId", labs, <<>>)
  ELSE IF ~labourerSchemaValid(doc) THEN LabourerResult(500, "ValidationError", labs, <<>>)
  ELSE IF Truthy(body.userId) /\ \E d \in labs : d.userId = body.userId
    THEN LabourerResult(409, "Labourer profile already exists for this user",
                        labs \cup {doc}, <<>>)
  ELSE LabourerResult(201, "", labs \cup {doc}, <<>>)

createLabourerResult(labs, n, body) ==
  LET s1 == <<"check required fields">>
      s2 == s1 \o When(Truthy(body.userId), "check userId")
      s3 == s2 \o When(Truthy(body.assignedProjectId), "check assignedProjectId")
      s4 == s3 \o When(Truthy(body.userId), "Labourer.findOne")
      s5 == s4 \o <<"Labourer.create">>
      doc == [_id |-> LabId(n), userId |-> body.userId, gender |-> body.gender,
              status |-> body.status, assignedProjectId |-> body.assignedProjectId,
              joiningDate |-> OptionalDate(body.joiningDate)] IN
  IF ~Truthy(body.fullName) \/ ~Truthy(body.gender)
    THEN LabourerResult(400, "Please provide all required labourer details", labs, s1)
  ELSE IF Truthy(body.userId) /\ ~IsValidObjectId(body.userId)
    THEN LabourerResult(400, "Invalid userId", labs, s2)
  ELSE IF Truthy(body.assignedProjectId) /\ ~IsValidObjectId(body.assignedProjectId)
    THEN LabourerResult(400, "Invalid assignedProjectId", labs, s3)
  ELSE IF Truthy(body.userId) /\ \E d \in labs : d.userId = body.userId
    THEN LabourerResult(409, "Labourer profile already exists for this user", labs, s4)
  ELSE IF ~labourerSchemaValid(doc) THEN LabourerResult(500, "ValidationError", labs, s5)
  ELSE LabourerResult(201, "", labs \cup {doc}, s5)

updateLabourerResult(labs, projs, id, body) ==
  LET s1 == <<"check labourerId">>
      s2 == s1 \o When(Truthy(body.gender), "check gender")
      s3 == s2 \o When(Truthy(body.status), "check status")
      s4 == s3 \o When(Truthy(body.assignedProjectId), "check assignedProjectId")
      s5 == s4 \o When(Truthy(body.assignedProjectId), "Project.findById")
      s6 == s5 \o When(Truthy(body.joiningDate), "check joiningDate")
      s7 == s6 \o <<"Labourer.findById">>
      s8 == s7 \o <<"labourer.save">> IN
  IF ~IsValidObjectId(id) THEN LabourerResult(400, "Invalid labourer ID", labs, s1)
  ELSE IF Truthy(body.gender) /\ body.gender \notin allowedGenders
    THEN LabourerResult(400, "Gender must be one of", labs, s2)
  ELSE IF Truthy(body.status) /\ body.status \notin allowedLabourerStatuses
    THEN LabourerResult(400, "Status must be one of", labs, s3)
  ELSE IF Truthy(body.assignedProjectId) /\ ~IsValidObjectId(body.assignedProjectId)
    THEN LabourerResult(400, "Invalid assignedProjectId", labs, s4)
  ELSE IF Truthy(body.assignedProjectId) /\ findById(projs, {body.assignedProjectId}) = {}
    THEN LabourerResult(404, "Assigned Project not found", labs, s5)
  ELSE IF Truthy(body.joiningDate) /\ ParseDate(body.joiningDate) = NaNDate
    THEN LabourerResult(400, "Invalid joiningDate", labs, s6)
  ELSE IF findById(labs, {id}) = {} THEN LabourerResult(404, "Labourer not found", labs, s7)
  ELSE
    LET labourer == CHOOSE d \in labs : d._id = id
        assigned ==
          [labourer EXCEPT
             !.gender = IF body.gender = Undefined THEN @ ELSE body.gender,
             !.status = IF body.status = Undefined THEN @ ELSE body.status,
             !.assignedProjectId =
                IF body.assignedProjectId = Undefined THEN @ ELSE body.assignedProjectId,
             !.joiningDate =
                CASE body.joiningDate = Undefined -> @
                  [] Truthy(body.joiningDate) -> ParseDate(body.joiningDate)
                  [] OTHER -> NullDate] IN
    IF ~labourerSchemaValid(assigned) THEN LabourerResult(500, "ValidationError", labs, s8)
    ELSE LabourerResult(200, "", (labs \ {labourer}) \cup {assigned}, s8)

assignLabourerToProjectResult(labs, projs, labourerId, projectId) ==
  LET s1 == <<"check labourerId", "check projectId">>
      s2 == s1 \o <<"Labourer.findById">>
      s3 == s2 \o When(Truthy(projectId), "Project.findById")
      s4 == s3 \o <<"labourer.save">> IN
  IF ~IsValidObjectId(labourerId)
    THEN LabourerResult(400, "Invalid labourer ID", labs, <<"check labourerId">>)
  ELSE IF Truthy(projectId) /\ ~IsValidObjectId(projectId)
    THEN LabourerResult(400, "Invalid project ID", labs, s1)
  ELSE IF findById(labs, {labourerId}) = {} THEN LabourerResult(404, "Labourer not found", labs, s2)
  ELSE IF Truthy(projectId) /\ findById(projs, {projectId}) = {}
    THEN LabourerResult(404, "Project not found", labs, s3)
  ELSE
    LET labourer == CHOOSE d \in labs : d._id = labourerId IN
    LabourerResult(200, "",
                   (labs \ {labourer})
                     \cup {[labourer EXCEPT !.assignedProjectId =
                                IF Truthy(projectId) THEN projectId ELSE Null]}, s4)

changeLabourerStatusResult(labs, id, status) ==
  LET s1 == <<"check labourerId">>
      s2 == s1 \o <<"check status">>
      s3 == s2 \o <<"Labourer.findById">> IN
  IF ~IsValidObjectId(id) THEN LabourerResult(400, "Invalid labourer ID", labs, s1)
  ELSE IF ~Truthy(status) \/ status \notin allowedLabourerStatuses
    THEN LabourerResult(400, "Status is required", labs, s2)
  ELSE IF findById(labs, {id}) = {} THEN LabourerResult(404, "Labourer not found", labs, s3)
  ELSE
    LET labourer == CHOOSE d \in labs : d._id = id IN
    LabourerResult(200, "", (labs \ {labourer}) \cup {[labourer EXCEPT !.status = status]},
                   s3 \o <<"labourer.save">>)

deleteLabourerResult(labs, id) ==
  LET s1 == <<"check labourerId">>
      s2 == s1 \o <<"Labourer.findById">> IN
  IF ~IsValidObjectId(id) THEN LabourerResult(400, "Invalid labourer ID", labs, s1)
  ELSE IF findById(labs, {id}) = {} THEN LabourerResult(404, "Labourer not found", labs, s2)
  ELSE LabourerResult(200, "", {d \in labs : d._id # id}, s2 \o <<"Labourer.findByIdAndDelete">>)

\* A Labourer request answered with r.
labourerResponds(op, r, request) ==
  /\ labourers' = r.labs
  /\ resp' = Response(op, r.code, [error |-> r.error, steps |-> r.steps, request |-> request])
  /\ UNCHANGED <<attendance, nextAttId, salary, nextSalId, leaves, nextLeaveId, users, inflight,
                 notifications, nextNotifId, performance, nextPerfId, nextUserId,
                 projects, nextProjId>>

createLabourer(body) ==
  LET r == createLabourerResult(labourers, nextLabId, body) IN
  /\ r.code = 201 => nextLabId <= MaxLab
  /\ nextLabId' = IF r.labs = labourers THEN nextLabId ELSE nextLabId + 1
  /\ labourerResponds("createLabourer", r, body)

updateLabourer(id, body) ==
  /\ labourerResponds("updateLabourer", updateLabourerResult(labourers, projects, id, body),
                      [id |-> id, body |-> body])
  /\ UNCHANGED nextLabId

assignLabourerToProject(labourerId, projectId) ==
  /\ labourerResponds("assignLabourerToProject",
                      assignLabourerToProjectResult(labourers, projects, labourerId, projectId),
                      [id |-> labourerId, projectId |-> projectId])
  /\ UNCHANGED nextLabId

changeLabourerStatus(id, status) ==
  /\ labourerResponds("changeLabourerStatus", changeLabourerStatusResult(labourers, id, status),
                      [id |-> id, status |-> status])
  /\ UNCHANGED nextLabId

deleteLabourer(id) ==
  /\ labourerResponds("deleteLabourer", deleteLabourerResult(labourers, id), [id |-> id])
  /\ UNCHANGED nextLabId

ProjectBodies ==
  {[name |-> nm, startDate |-> sd, endDate |-> "2024-01-02", managerId |-> m] :
     nm \in {"site", Undefined}, sd \in {Undefined, "2024-01-01", "2024-01-03", Garbage},
     m \in {Undefined, NotAnId}}

ProjectIdParams == {"P1", NotAnId}

LabourerBodies ==
  {[fullName |-> "worker", userId |-> u, gender |-> g, status |-> st,
    assignedProjectId |-> p, joiningDate |-> Undefined] :
     u \in {"U1", NotAnId}, g \in {"male", Undefined}, st \in {Undefined, "retired"},
     p \in {Undefined, NotAnId}}

LabourerUpdates ==
  {[gender |-> g, status |-> st, assignedProjectId |-> p, joiningDate |-> jd] :
     g \in {Undefined, "robot"}, st \in {Undefined, "inactive"},
     p \in {Undefined, "P1", NotAnId}, jd \in {Undefined, Garbage}}

LabourerIdParams == {"L1", "L2", NotAnId}

LabourerNext ==
  \/ \E body \in ProjectBodies : createProject(body)
  \/ \E id \in ProjectIdParams, body \in ProjectBodies : updateProject(id, body)
  \/ \E id \in ProjectIdParams, isArray \in BOOLEAN, ls \in {<<>>, <<"L1">>, <<"L1", NotAnId>>} :
       assignLabourersToProject(id, isArray, ls)
  \/ \E id \in ProjectIdParams, m \in {Null, NotAnId} :
       changeProjectManager(id, m)
  \/ \E id \in ProjectIdParams, action \in {Undefined, "archive"} : deleteProject(id, action)
  \/ \E id \in ProjectIdParams, st \in {Undefined, "archived", "open"} :
       changeProjectStatus(id, st)
  \/ \E body \in LabourerBodies : createLabourer(body)
  \/ \E id \in LabourerIdParams, body \in LabourerUpdates : updateLabourer(id, body)
  \/ \E id \in LabourerIdParams, p \in {Undefined, Null, "P1", NotAnId} :
       assignLabourerToProject(id, p)
  \/ \E id \in LabourerIdParams, st \in {Undefined, "inactive", "retired"} :
       changeLabourerStatus(id, st)
  \/ \E id \in LabourerIdParams : deleteLabourer(id)

LabourerSpec == Init /\ [][LabourerNext]_vars

-----------------------------------------------------------------------------
(* approveLeave, rejectLeave and cancelLeaveRequest as the event loop runs  *)
(* them: a handler is suspended at `await Leave.findById` and at its write  *)
(* (`await leaveRequest.save()`, `await Leave.findByIdAndDelete`), and the  *)
(* other request may run in between.  Slot p holds one request.             *)

reviewStatus(op) == IF op = "approveLeave" THEN "approved" ELSE "rejected"

\* Steps 1-4 (1-3 of cancelLeaveRequest): the code the request is rejected
\* with, or 200 when the leave was found pending.
leaveReadCode(lv, req) ==
  IF req.op = "cancelLeaveRequest" THEN cancelLeaveRequestResult(lv, req.id).code
  ELSE reviewLeaveResult(lv, req.id, req.reviewedBy, reviewStatus(req.op)).code

\* The write with a save() that compares the stored status with "pending".
leaveWriteResultRechecking(lv, req) ==
  IF req.op = "cancelLeaveRequest" THEN [code |-> 200, lv |-> {d \in lv : d._id # req.id}]
  ELSE IF ~\E d \in lv : d._id = req.id THEN [code |-> 500, lv |-> lv]
  ELSE LET doc == CHOOSE d \in lv : d._id = req.id IN
       IF doc.status # "pending" THEN [code |-> 400, lv |-> lv]
       ELSE [code |-> 200,
             lv |-> (lv \ {doc}) \cup {[doc EXCEPT !.status = reviewStatus(req.op),
                                                   !.reviewedBy = req.reviewedBy]}]

\* The write: findByIdAndDelete removes the document if it is there; save()
\* sets the modified paths of the stored document and throws
\* DocumentNotFoundError when the document is gone.
leaveWriteResult(lv, req) ==
  IF req.op = "cancelLeaveRequest" THEN [code |-> 200, lv |-> {d \in lv : d._id # req.id}]
  ELSE IF ~\E d \in lv : d._id = req.id THEN [code |-> 500, lv |-> lv]
  ELSE LET doc == CHOOSE d \in lv : d._id = req.id IN
       [code |-> 200,
        lv |-> (lv \ {doc}) \cup {[doc EXCEPT !.status = reviewStatus(req.op),
                                              !.reviewedBy = req.reviewedBy]}]

leaveAwaitFindById(p, req) ==
  LET c == leaveReadCode(leaves, req) IN
  /\ inflight[p].stage = "idle"
  /\ inflight' = [inflight EXCEPT ![p] =
        [stage |-> IF c = 200 THEN "read" ELSE "done", op |-> req.op, id |-> req.id,
         reviewedBy |-> req.reviewedBy, code |-> c]]
  /\ resp' = IF c = 200 THEN resp ELSE Response(req.op, c, [id |-> req.id])
  /\ UNCHANGED <<otherStores, users, attendance, nextAttId, salary, nextSalId, leaves, nextLeaveId>>

leaveAwaitWrite(p) ==
  /\ inflight[p].stage = "read"
  /\ LET r == leaveWriteResult(leaves, inflight[p]) IN
       /\ leaves' = r.lv
       /\ inflight' = [inflight EXCEPT ![p] = [@ EXCEPT !.stage = "done", !.code = r.code]]
       /\ resp' = Response(inflight[p].op, r.code, [id |-> inflight[p].id])
  /\ UNCHANGED <<otherStores, users, attendance, nextAttId, salary, nextSalId, nextLeaveId>>

LeaveRaceRequests ==
  {[op |-> op, id |-> id, reviewedBy |-> r] :
     op \in {"approveLeave", "rejectLeave", "cancelLeaveRequest"},
     id \in {LeaveId(1), LeaveId(2)}, r \in {"U1", Undefined}}

LeaveRaceNext ==
  \/ \E body \in ApplyBodies : applyForLeave(body)
  \/ \E p \in {1, 2}, req \in LeaveRaceRequests : leaveAwaitFindById(p, req)
  \/ \E p \in {1, 2} : leaveAwaitWrite(p)

LeaveRaceSpec == Init /\ [][LeaveRaceNext]_vars

-----------------------------------------------------------------------------
(* One request of any controller on collections that hold documents         *)

\* The collections after k requests of each kind (k = 0: all empty): the
\* listed attendance, salaries, leaves and users, and for k > 0 one
\* notification of U1, one performance record, one project and one labourer.
PopulatedInit ==
  \E k \in 0..MaxListed :
    LET ns == IF k = 0 THEN {}
              ELSE createNotificationResult({}, 1, NotificationBody("U1", "hello", "email", "sent")).ns
        perf == IF k = 0 THEN {}
                ELSE createPerformanceRecordResult(
                       {}, 1, PerformanceBody("L1", "P1", "2024-01-01", JsNumber(80), "good")).perf
        projs == IF k = 0 THEN {}
                 ELSE {createProjectDoc(1, [name |-> "site", startDate |-> Undefined,
                                            endDate |-> "2024-01-02", managerId |-> Undefined])}
        labs == IF k = 0 THEN {}
                ELSE createLabourerResult(
                       {}, 1, [fullName |-> "worker", userId |-> "U1", gender |-> "male",
                               status |-> Undefined, assignedProjectId |-> Undefined,
                               joiningDate |-> Undefined]).labs IN
    /\ attendance = attendanceListed(k)
    /\ nextAttId = Cardinality(attendanceListed(k)) + 1
    /\ salary = salaryListed(k)
    /\ nextSalId = Cardinality(salaryListed(k)) + 1
    /\ leaves = leavesListed(k)
    /\ nextLeaveId = Cardinality(leavesListed(k)) + 1
    /\ users = usersListed(k)
    /\ nextUserId = k + 1
    /\ notifications = ns
    /\ nextNotifId = Cardinality(ns) + 1
    /\ performance = perf
    /\ nextPerfId = Cardinality(perf) + 1
    /\ projects = projs
    /\ nextProjId = Cardinality(projs) + 1
    /\ labourers = labs
    /\ nextLabId = Cardinality(labs) + 1
    /\ inflight = [p \in {1, 2} |-> [stage |-> "idle"]]
    /\ resp = Response("none", 0, NoBody)

\* The first request on these collections.
FirstRequest == resp.op = "none"

OneRequestNext ==
  \/ \E body \in MarkBodies : FirstRequest /\ markAttendance(body)
  \/ \E id \in AttendanceIdParams, u \in UpdateBodies : FirstRequest /\ updateAttendance(id, u)
  \/ \E id \in AttendanceIdParams : FirstRequest /\ deleteAttendance(id)
  \/ \E recs \in BulkRequests :
       \E we \in SUBSET (0..(Len(insertManyUnorderedDocs(recs)) - 1)) :
          \E has \in (IF we = {} THEN {TRUE} ELSE BOOLEAN) :
             FirstRequest /\ bulkAddAttendance(recs, we, has)
  \/ \E body \in CreateSalaryBodies : FirstRequest /\ createSalaryRecord(body)
  \/ \E id \in SalaryIdParams, u \in UpdateSalaryBodies :
       FirstRequest /\ updateSalaryRecord(id, u)
  \/ \E body \in GenerateBodies : FirstRequest /\ generateSalaryForPeriod(body)
  \/ \E id \in SalaryIdParams, pd \in {Undefined, Garbage} :
       FirstRequest /\ markSalaryAsPaid(id, pd)
  \/ \E id \in SalaryIdParams : FirstRequest /\ deleteSalaryRecord(id)
  \/ \E body \in ApplyBodies : FirstRequest /\ applyForLeave(body)
  \/ \E id \in LeaveIdParams, r \in Reviewers : FirstRequest /\ approveLeave(id, r)
  \/ \E id \in LeaveIdParams, r \in Reviewers : FirstRequest /\ rejectLeave(id, r)
  \/ \E id \in LeaveIdParams : FirstRequest /\ cancelLeaveRequest(id)
  \/ \E id \in LeaveIdParams, remark \in {"ok", Blank} :
       FirstRequest /\ addRemarkToLeaveRequest(id, remark)
  \/ \E body \in PerformanceBodies : FirstRequest /\ createPerformanceRecord(body)
  \/ \E id \in PerformanceIdParams, u \in PerformanceUpdates :
       FirstRequest /\ updatePerformanceRecord(id, u)
  \/ \E id \in PerformanceIdParams : FirstRequest /\ deletePerformanceRecord(id)
  \/ \E body \in NotificationBodies : FirstRequest /\ createNotification(body)
  \/ \E q \in NotificationQueries, sq \in StrictQueryOutcomes :
       FirstRequest /\ listNotificationsByUser(q, sq)
  \/ \E id \in NotificationIdParams, st \in {"failed", "read", Undefined} :
       FirstRequest /\ updateNotificationStatus(id, st)
  \/ \E t \in Tokens, id \in NotificationIdParams : FirstRequest /\ deleteNotification(t, id)
  \/ \E body \in ProjectBodies : FirstRequest /\ createProject(body)
  \/ \E id \in ProjectIdParams, body \in ProjectBodies : FirstRequest /\ updateProject(id, body)
  \/ \E id \in ProjectIdParams, isArray \in BOOLEAN, ls \in {<<>>, <<"L1">>, <<"L1", NotAnId>>} :
       FirstRequest /\ assignLabourersToProject(id, isArray, ls)
  \/ \E id \in ProjectIdParams, m \in {Null, NotAnId} :
       FirstRequest /\ changeProjectManager(id, m)
  \/ \E id \in ProjectIdParams, action \in {Undefined, "archive"} :
       FirstRequest /\ deleteProject(id, action)
  \/ \E id \in ProjectIdParams, st \in {Undefined, "archived", "open"} :
       FirstRequest /\ changeProjectStatus(id, st)
  \/ \E body \in LabourerBodies : FirstRequest /\ createLabourer(body)
  \/ \E id \in LabourerIdParams, body \in LabourerUpdates :
       FirstRequest /\ updateLabourer(id, body)
  \/ \E id \in LabourerIdParams, p \in {Undefined, Null, "P1", NotAnId} :
       FirstRequest /\ assignLabourerToProject(id, p)
  \/ \E id \in LabourerIdParams, st \in {Undefined, "inactive", "retired"} :
       FirstRequest /\ changeLabourerStatus(id, st)
  \/ \E id \in LabourerIdParams : FirstRequest /\ deleteLabourer(id)

OneRequestSpec == PopulatedInit /\ [][OneRequestNext]_vars

-----------------------------------------------------------------------------
(* Properties of the Attendance controller *)

BodyKey(body) == <<body.labourerId, body.projectId, ParseDate(body.date), body.shift>>

SameKey(att, key) == {d \in att : AttendanceKey(d) = key}

\* C1: after any sequence of markAttendance, updateAttendance,
\* bulkAddAttendance and deleteAttendance requests, each run to completion, the
\* Attendance store holds at most one record per
\* (labourerId, projectId, date, shift).
AttendanceUnique ==
  \A d1, d2 \in attendance : AttendanceKey(d1) = AttendanceKey(d2) => d1 = d2

\* C2: a markAttendance request with valid fields succeeds with 201 and adds
\* exactly one record when no record has its key; a second request with the
\* same key right after a successful one is answered 409 and leaves the store
\* unchanged.
MarkTwiceOneSuccessOneConflict ==
  [][\A body \in ValidMarkBodies :
       markAttendance(body) =>
         /\ SameKey(attendance, BodyKey(body)) = {} =>
               /\ resp'.code = 201
               /\ \E d \in attendance' :
                     /\ d \notin attendance
                     /\ attendance' = attendance \cup {d}
                     /\ AttendanceKey(d) = BodyKey(body)
                     /\ d.status = body.status
         /\ ( /\ resp.op = "markAttendance"
              /\ resp.code = 201
              /\ AttendanceKey(resp.body.attendance) = BodyKey(body) ) =>
               /\ resp'.code = 409
               /\ attendance' = attendance]_vars

\* C2 witness: a markAttendance request was answered 409 while the store holds
\* the single record an earlier request created.
MarkConflictReached ==
  /\ resp.op = "markAttendance"
  /\ resp.code = 409
  /\ Cardinality(attendance) = 1

\* C3: when two markAttendance requests with the same valid key both pass the
\* existence check before either inserts, both insert and both answer 201: the
\* store then holds two records with that key.
RaceBothCreated ==
  /\ \A p \in {1, 2} : inflight[p].stage = "done" /\ inflight[p].code = 201
  /\ BodyKey(inflight[1].body) = BodyKey(inflight[2].body)

RaceLeavesDuplicates ==
  RaceBothCreated =>
    Cardinality(SameKey(attendance, BodyKey(inflight[1].body))) = 2

\* C10: a bulkAddAttendance request answered 201 reports
\* insertedCount + failedCount = number of submitted entries, insertedCount =
\* number of records added to the store, and lists every entry that was not
\* stored once, under its 0-based position in the submitted list.
BulkReportMatchesSubmission ==
  [][\A recs \in BulkRequests :
       \A we \in SUBSET (0..(Len(insertManyUnorderedDocs(recs)) - 1)), has \in BOOLEAN :
         (bulkAddAttendance(recs, we, has) /\ resp'.code = 201) =>
           LET b == resp'.body
               stored == bulkStoredPos(recs, we)
               notStored == {i \in 0..(Len(recs) - 1) :
                               \A k \in 1..Len(stored) : stored[k] # i + 1} IN
           /\ b.insertedCount + b.failedCount = Len(recs)
           /\ b.insertedCount = Cardinality(attendance' \ attendance)
           /\ {b.failedRecords[k].idx : k \in 1..Len(b.failedRecords)} = notStored
           /\ Len(b.failedRecords) = Cardinality(notStored)]_vars

-----------------------------------------------------------------------------
(* Properties of the Salary controller *)

\* C4: generateSalaryForPeriod with valid inputs commits, for every labourer
\* with n >= 1 'present' records in [start, end] and no Salary record for
\* (labourerId, start, end), exactly one new Salary record with
\* totalDaysPresent = n, totalSalary = n * dailyWage, status pending and
\* payslipUrl "".
GenerateCommitsOneRecordPerLabourer ==
  [][\A body \in ValidGenerateBodies :
       generateSalaryForPeriod(body) =>
         LET start == ParseDate(body.startPeriod)
             end == ParseDate(body.endPeriod) IN
         \A l \in LabourerIds :
           ( /\ presentDays(attendance, l, start, end) >= 1
             /\ ~\E d \in salary : SalaryKey(d) = <<l, start, end>> ) =>
              LET new == {d \in salary' \ salary : SalaryKey(d) = <<l, start, end>>} IN
              /\ Cardinality(new) = 1
              /\ \A d \in new :
                   /\ d.totalDaysPresent = JsNumber(presentDays(attendance, l, start, end))
                   /\ d.totalSalary = JsNumber(presentDays(attendance, l, start, end) * body.dailyWage.v)
                   /\ d.status = "pending"
                   /\ d.payslipUrl = EmptyString]_vars

\* C5: after a generateSalaryForPeriod run for (start, end) that had labourers
\* to pay, a second run with the same (start, end) on the unchanged attendance
\* creates no Salary record and answers 'already generated' with an empty
\* generatedSalaries list.
GenerateTwiceAlreadyGenerated ==
  [][\A body \in ValidGenerateBodies :
       LET start == ParseDate(body.startPeriod)
           end == ParseDate(body.endPeriod)
           second == generateSalaryForPeriodResult(attendance', salary', nextSalId', body) IN
       ( /\ generateSalaryForPeriod(body)
         /\ salaryRecordsToCreate(attendance, salary, start, end, body.dailyWage.v) # {} ) =>
            /\ second.outcome = "already generated"
            /\ second.generated = 0
            /\ second.sal = salary']_vars

\* C6: after any sequence of createSalaryRecord, updateSalaryRecord,
\* generateSalaryForPeriod, markSalaryAsPaid and deleteSalaryRecord requests,
\* each run to completion, the Salary store holds at most one record per
\* (labourerId, startPeriod, endPeriod).
SalaryUnique ==
  \A d1, d2 \in salary : SalaryKey(d1) = SalaryKey(d2) => d1 = d2

\* C9: when generateSalaryForPeriod reaches its batch insert, a record that
\* fails does not abort the request: the request is answered 201, every
\* synthesized record the schema accepts is committed, and the count of
\* generated records is the number committed.
GenerateInsertIsPartial ==
  [][\A body \in ValidGenerateBodies :
       LET start == ParseDate(body.startPeriod)
           end == ParseDate(body.endPeriod)
           toCreate == salaryRecordsToCreate(attendance, salary, start, end, body.dailyWage.v)
           accepted == {r \in toCreate : salarySchemaValid(r)} IN
       (generateSalaryForPeriod(body) /\ toCreate # {}) =>
          /\ resp'.code = 201
          /\ Cardinality(salary' \ salary) = Cardinality(accepted)
          /\ \A r \in accepted : \E d \in salary' \ salary : SalaryKey(d) = SalaryKey(r)]_vars

\* C11: bulkAddAttendance with a non-empty list in which no entry passes the
\* per-entry validation is answered with one 400 error and inserts no
\* Attendance record.
BulkWithoutValidEntryFails ==
  [][\A recs \in {r \in BulkRequests :
                    Len(r) > 0 /\ \A i \in 1..Len(r) : bulkEntryError(r[i]) # ""} :
       \* no document reaches the store, so there is no write error to choose
       bulkAddAttendance(recs, {}, TRUE) =>
          /\ resp'.code = 400
          /\ resp'.body = bulkNoValidRecords(Len(recs))
          /\ attendance' = attendance
          /\ nextAttId' = nextAttId]_vars

\* C11 witness: a list of only invalid entries was refused.
BulkWithoutValidEntryRefused ==
  /\ resp.op = "bulkAddAttendance"
  /\ resp.code = 400
  /\ \E n \in 1..MaxBulk : resp.body = bulkNoValidRecords(n)

\* The bodies generateSalaryForPeriod has to refuse: a bound missing or not a
\* date, start after end, dailyWage missing, not a number or negative.
RefusedGenerateBodies ==
  {body \in GenerateBodies :
     \/ body.startPeriod = Undefined \/ body.endPeriod = Undefined
     \/ ParseDate(body.startPeriod) = NaNDate \/ ParseDate(body.endPeriod) = NaNDate
     \/ ParseDate(body.startPeriod) > ParseDate(body.endPeriod)
     \/ body.dailyWage.t # "number"
     \/ body.dailyWage.v < 0}

\* C20: generateSalaryForPeriod answers 400 whenever dailyWage is not a
\* non-negative number, startPeriod or endPeriod is missing or not a date, or
\* start is after end; the answer does not depend on the Attendance and Salary
\* collections (no query is made) and no record is created.
GenerateRefusesBadInput ==
  [][\A body \in (IF resp'.op = "generateSalaryForPeriod" THEN RefusedGenerateBodies ELSE {}) :
       generateSalaryForPeriod(body) =>
          /\ resp'.code = 400
          /\ resp'.body.outcome = "rejected"
          /\ resp'.code = generateSalaryForPeriodResult({}, {}, 1, body).code
          /\ salary' = salary /\ nextSalId' = nextSalId /\ attendance' = attendance]_vars

\* A period with start after end was refused while present days and salary
\* records are stored.
GenerateRefusedWithRecordsStored ==
  /\ resp.op = "generateSalaryForPeriod" /\ resp.code = 400
  /\ resp.body.request.startPeriod = "2024-01-02"
  /\ resp.body.request.endPeriod = "2024-01-01"
  /\ \E d \in attendance : d.status = "present"
  /\ salary # {}

\* The labourers with a present day in [start, end].
PresentIn(start, end) ==
  {d.labourerId : d \in {x \in attendance : /\ x.status = "present" /\ x.date # NullDate
                                            /\ x.date >= start /\ x.date <= end}}

\* C21: generateSalaryForPeriod tells its two empty outcomes apart: without a
\* present day in the period it answers "no attendance records"; with present
\* days whose labourers all have a Salary record of the exact period it answers
\* "already generated"; both create no record and their messages differ.
GenerateEmptyOutcomesDistinct ==
  [][\A body \in (IF resp'.op = "generateSalaryForPeriod" THEN ValidGenerateBodies ELSE {}) :
       LET start == ParseDate(body.startPeriod)
           end == ParseDate(body.endPeriod)
           covered == \A l \in PresentIn(start, end) :
                         \E x \in salary : /\ x.labourerId = l
                                           /\ x.startPeriod = start /\ x.endPeriod = end IN
       generateSalaryForPeriod(body) =>
          /\ PresentIn(start, end) = {} =>
               /\ resp'.code = 200 /\ resp'.body.generated = 0 /\ salary' = salary
               /\ resp'.body.message = generateSalaryMessage("no attendance records")
          /\ (PresentIn(start, end) # {} /\ covered) =>
               /\ resp'.code = 200 /\ resp'.body.generated = 0 /\ salary' = salary
               /\ resp'.body.message = generateSalaryMessage("already generated")
          /\ generateSalaryMessage("no attendance records")
               # generateSalaryMessage("already generated")]_vars

\* Present days exist and every labourer has the record of the period.
GenerateAnsweredAlreadyGenerated ==
  /\ resp.op = "generateSalaryForPeriod" /\ resp.code = 200
  /\ resp.body.outcome = "already generated"
  /\ \E d \in attendance : d.status = "present"
  /\ salary # {}

\* C24: every stored Salary record has startPeriod <= endPeriod,
\* totalDaysPresent >= 0, dailyWage >= 0, totalSalary >= 0 and a status of
\* pending or paid, after any sequence of create, update, generate and
\* mark-as-paid requests.
SalaryRecordsWellFormed ==
  \A d \in salary :
     /\ d.startPeriod <= d.endPeriod
     /\ d.totalDaysPresent.t = "number" /\ d.totalDaysPresent.v >= 0
     /\ d.dailyWage.t = "number" /\ d.dailyWage.v >= 0
     /\ d.totalSalary.t = "number" /\ d.totalSalary.v >= 0
     /\ d.status \in allowedSalaryStatus

\* C27: generateSalaryForPeriod never modifies or deletes a Salary record
\* that existed before the call, whatever the attendance and the dailyWage of
\* the request, and never changes an Attendance record.
GenerateKeepsExistingRecords ==
  [][\A body \in (IF resp'.op = "generateSalaryForPeriod" THEN GenerateBodies ELSE {}) :
       generateSalaryForPeriod(body) =>
          /\ salary \subseteq salary'
          /\ attendance' = attendance]_vars

\* A generate request for a period whose record has another dailyWage was
\* answered and the record is as it was created.
GenerateLeftOtherWageInPlace ==
  /\ resp.op = "generateSalaryForPeriod" /\ resp.code = 200
  /\ resp.body.request.dailyWage = JsNumber(0)
  /\ \E d \in salary :
        /\ d.startPeriod = ParseDate(resp.body.request.startPeriod)
        /\ d.endPeriod = ParseDate(resp.body.request.endPeriod)
        /\ d.dailyWage = JsNumber(100)
        /\ d.labourerId \in PresentIn(d.startPeriod, d.endPeriod)

-----------------------------------------------------------------------------
(* Properties of the Leave controller *)

NotPending(lv, id) == \E d \in lv : d._id = id /\ d.status # "pending"

-----------------------------------------------------------------------------
(* Properties of the list endpoints *)

PagedOps ==
  {"getAttendanceByLabourer", "getAttendanceByProject", "listSalaryRecords",
   "viewSalaryPayslipDetailsForLabourer", "getLeaveStatusByLabourer",
   "listLeaveRequests", "listAllUsers", "listProjectsByLabourer"}

PagedOk == resp.op \in PagedOps /\ resp.code = 200

\* C12: a paginated list answered with normalised page >= 1 and limit >= 1 has
\* skip = (page - 1) * limit >= 0, meta.totalPages = ceil(total / limit),
\* meta.currentPage = page and meta.pageSize = the number of records returned
\* = min(limit, max(0, total - skip)) <= limit.
PaginationMetaConsistent ==
  PagedOk =>
    LET m == resp.body.meta
        page == resp.body.paging.page
        limit == resp.body.paging.limit
        skip == resp.body.paging.skip IN
    (page.t = "number" /\ limit.t = "number" /\ page.v >= 1 /\ limit.v >= 1) =>
       /\ skip.t = "number" /\ skip.v = (page.v - 1) * limit.v /\ skip.v >= 0
       /\ m.totalPages * limit.v >= m.total /\ (m.totalPages - 1) * limit.v < m.total
       /\ m.currentPage = page.v
       /\ m.pageSize = Len(resp.body.records)
       /\ m.pageSize = Min(limit.v, Max(0, m.total - skip.v))
       /\ m.pageSize <= limit.v

\* C12 witness: page 2 of 3 records with limit 2 holds the one record left.
LastPageIsPartial ==
  /\ PagedOk
  /\ resp.body.paging.page = JsNumber(2) /\ resp.body.paging.limit = JsNumber(2)
  /\ resp.body.meta.total = 3 /\ resp.body.meta.totalPages = 2
  /\ resp.body.meta.pageSize = 1

\* C13: on every list endpoint a page or limit value that is missing,
\* non-numeric, zero or negative is replaced by its default and the request
\* succeeds: every list request that passes its other checks is answered 200
\* with page and limit integers >= 1 and skip >= 0.
PagingAlwaysNormalised ==
  (resp.op \in PagedOps /\ resp.code \notin {400, 403}) =>
     /\ resp.code = 200
     /\ resp.body.paging.page.t = "number" /\ resp.body.paging.page.v >= 1
     /\ resp.body.paging.limit.t = "number" /\ resp.body.paging.limit.v >= 1
     /\ resp.body.paging.skip.t = "number" /\ resp.body.paging.skip.v >= 0

\* The records of a list response, as a set.
Listed(body) == {body.records[i] : i \in 1..Len(body.records)}

\* A period [s, e] meets the window of the query: each bound is absent or on
\* the right side of the period.
Overlaps(s, e, queryStart, queryEnd) ==
  /\ queryStart = Undefined \/ e >= ParseDate(queryStart)
  /\ queryEnd = Undefined \/ s <= ParseDate(queryEnd)

ValidWindowValues == DateValues \ {Garbage}

\* C14: every leave and salary period filter with valid bounds returns the
\* records whose period [s, e] satisfies (queryStart absent or e >= queryStart)
\* and (queryEnd absent or s <= queryEnd), and no others.
PeriodFiltersAreOverlap ==
  [][\A a \in ValidWindowValues, b \in ValidWindowValues :
       LET sq == [NoQuery EXCEPT !.startPeriod = a, !.endPeriod = b]
           lq == [NoQuery EXCEPT !.fromDate = a, !.toDate = b]
           salaryIn(docs) == {d \in docs : Overlaps(d.startPeriod, d.endPeriod, a, b)}
           leaveIn(docs) == {d \in docs : Overlaps(d.fromDate, d.toDate, a, b)} IN
       /\ (\E x \in StrictQueryOutcomes : listSalaryRecords(sq, x)) =>
             Listed(resp'.body) = salaryIn(salary)
       /\ viewSalaryPayslipDetailsForLabourer("L1", sq) =>
             Listed(resp'.body) = salaryIn({d \in salary : d.labourerId = "L1"})
       /\ salarySummaryByLabourer("L1", sq, "returns") =>
             resp'.body.matched = salaryIn({d \in salary : d.labourerId = "L1"})
       /\ salarySummaryByPeriod(sq) => resp'.body.matched = salaryIn(salary)
       /\ listLeaveRequests(lq) => Listed(resp'.body) = leaveIn(leaves)
       /\ getLeaveStatusByLabourer("L1", lq) =>
             Listed(resp'.body) = leaveIn({d \in leaves : d.labourerId = "L1"})]_vars

\* C15: a date filter value that does not parse as a date is answered with 400
\* by every list and summary endpoint; the filter is never dropped.
InvalidDateFilterRejected ==
  [][\A a \in DateValues, b \in DateValues :
       (a = Garbage \/ b = Garbage) =>
         LET aq == [NoQuery EXCEPT !.startDate = a, !.endDate = b]
             sq == [NoQuery EXCEPT !.startPeriod = a, !.endPeriod = b]
             lq == [NoQuery EXCEPT !.fromDate = a, !.toDate = b] IN
         /\ getAttendanceByLabourer("L1", aq) => resp'.code = 400
         /\ getAttendanceByProject("P1", aq) => resp'.code = 400
         /\ (\E oc \in ObjectIdCallOutcomes : getLabourerAttendanceSummary("L1", aq, oc)) =>
               resp'.code = 400
         /\ (\E oc \in ObjectIdCallOutcomes : getProjectAttendanceSummary("P1", aq, oc)) =>
               resp'.code = 400
         /\ (\E x \in StrictQueryOutcomes : listSalaryRecords(sq, x)) => resp'.code = 400
         /\ viewSalaryPayslipDetailsForLabourer("L1", sq) => resp'.code = 400
         /\ (\E oc \in ObjectIdCallOutcomes : salarySummaryByLabourer("L1", sq, oc)) =>
               resp'.code = 400
         /\ salarySummaryByPeriod(sq) => resp'.code = 400
         /\ listLeaveRequests(lq) => resp'.code = 400
         /\ getLeaveStatusByLabourer("L1", lq) => resp'.code = 400]_vars

\* C16: an identifier filter that is present and not a well-formed identifier
\* is answered with 400 by every list endpoint; the filter is never dropped.
InvalidIdFilterRejected ==
  [][/\ \A f \in {"projectId", "markedBy"} :
          getAttendanceByLabourer("L1", [NoQuery EXCEPT ![f] = NotAnId]) => resp'.code = 400
     /\ \A f \in {"labourerId", "markedBy"} :
          getAttendanceByProject("P1", [NoQuery EXCEPT ![f] = NotAnId]) => resp'.code = 400
     /\ \A f \in {"labourerId", "reviewedBy"} :
          listLeaveRequests([NoQuery EXCEPT ![f] = NotAnId]) => resp'.code = 400
     /\ (\E x \in StrictQueryOutcomes :
           listSalaryRecords([NoQuery EXCEPT !.labourerId = NotAnId], x)) =>
          resp'.code = 400]_vars

\* C17: a status or shift filter outside its enumeration is answered with 400
\* by every list endpoint; the filter is never dropped.
InvalidEnumFilterRejected ==
  [][/\ \A f \in {"status", "shift"} :
          /\ getAttendanceByLabourer("L1", [NoQuery EXCEPT ![f] = "bogus"]) => resp'.code = 400
          /\ getAttendanceByProject("P1", [NoQuery EXCEPT ![f] = "bogus"]) => resp'.code = 400
     /\ listLeaveRequests([NoQuery EXCEPT !.status = "bogus"]) => resp'.code = 400
     /\ getLeaveStatusByLabourer("L1", [NoQuery EXCEPT !.status = "bogus"]) => resp'.code = 400
     /\ (\E x \in StrictQueryOutcomes :
           listSalaryRecords([NoQuery EXCEPT !.status = "bogus"], x)) => resp'.code = 400
     /\ viewSalaryPayslipDetailsForLabourer("L1", [NoQuery EXCEPT !.status = "bogus"]) =>
          resp'.code = 400]_vars

\* The counters the summary of a set of Attendance records has to show.
StatusCounts(docs) ==
  [present |-> Cardinality({d \in docs : d.status = "present"}),
   absent |-> Cardinality({d \in docs : d.status = "absent"}),
   halfDay |-> Cardinality({d \in docs : d.status = "half-day"}),
   totalRecords |-> Cardinality(docs)]

InWindow(day, a, b) ==
  /\ a = Undefined \/ day >= ParseDate(a)
  /\ b = Undefined \/ day <= ParseDate(b)

\* C18: getLabourerAttendanceSummary and getProjectAttendanceSummary always
\* answer with a summary whose present, absent and halfDay equal the number of
\* matching records with that status and whose totalRecords is their sum, the
\* number of matching records.
SummaryCountsMatchingRecords ==
  [][\A a \in ValidWindowValues, b \in ValidWindowValues, oc \in ObjectIdCallOutcomes :
       LET q == [NoQuery EXCEPT !.startDate = a, !.endDate = b]
           ofLabourer == {d \in attendance : d.labourerId = "L1" /\ InWindow(d.date, a, b)}
           ofProject == {d \in attendance : d.projectId = "P1" /\ InWindow(d.date, a, b)} IN
       /\ getLabourerAttendanceSummary("L1", q, oc) =>
            /\ resp'.code = 200
            /\ resp'.body.summary = StatusCounts(ofLabourer)
            /\ resp'.body.summary.totalRecords =
                 resp'.body.summary.present + resp'.body.summary.absent
                   + resp'.body.summary.halfDay
       /\ getProjectAttendanceSummary("P1", q, oc) =>
            /\ resp'.code = 200
            /\ resp'.body.summary = StatusCounts(ofProject)
            /\ resp'.body.summary.totalRecords =
                 resp'.body.summary.present + resp'.body.summary.absent
                   + resp'.body.summary.halfDay]_vars

-----------------------------------------------------------------------------
(* Properties of the guarded routes *)

\* The user a cookie authenticates: the stored user its token was signed for.
SessionUser(us, userToken) == {u \in us : userToken = Token(u._id)}

\* The request ended in a middleware with this status and nothing stored changed.
RefusedWith(code) ==
  /\ resp'.code = code
  /\ resp'.op \in {"isAuthenticated", "isAuthorized"}
  /\ UNCHANGED <<otherStores, users, attendance, nextAttId, salary, nextSalId, leaves, nextLeaveId>>

\* A request with this cookie on a route for these roles: without a session
\* of an existing user it ends with 401, with a user of another role with 403,
\* both before the controller and without a change; otherwise the controller
\* answers.
GuardOutcome(userToken, roles, controller) ==
  LET session == SessionUser(users, userToken) IN
  /\ session = {} => RefusedWith(401)
  /\ (session # {} /\ \A u \in session : u.role \notin roles) => RefusedWith(403)
  /\ (session # {} /\ \A u \in session : u.role \in roles) => resp'.op = controller

\* C19: on every route guarded by isAuthenticated and isAuthorized(roles) a
\* missing or invalid token ends the request with 401, a role outside roles
\* with 403, in both cases before the controller and without any change of
\* stored data; the controller runs only for an existing user with a role in
\* roles.
GuardedRoutesRefuse ==
  [][\A t \in Tokens :
       /\ (\E body \in GuardedApplyBodies : postApply(t, body)) =>
             GuardOutcome(t, applyRoles, "applyForLeave")
       /\ (\E id \in GuardedLeaveIds : patchApprove(t, id, "U1")) =>
             GuardOutcome(t, reviewRoles, "approveLeave")
       /\ (\E id \in GuardedLeaveIds : patchReject(t, id, "U1")) =>
             GuardOutcome(t, reviewRoles, "rejectLeave")]_vars

-----------------------------------------------------------------------------
(* Properties of the Notifications controller *)

\* C22: deletion of a notification is a soft delete: after deleteNotification
\* answered 200 the record is still stored, its deleted flag is stored as
\* true, and no listNotificationsByUser result holds it.
DeletedNotificationKeptAndHidden ==
  (resp.op = "deleteNotification" /\ resp.code = 200) =>
     \E d \in notifications :
        /\ d._id = resp.body.id
        /\ d.deleted = "true"
        /\ \A sq \in StrictQueryOutcomes :
             d \notin Listed(listNotificationsByUserResult(
                               notifications, NoNotificationQuery, sq).body)

\* C30: deleteNotification changes a notification only for its owner or an
\* admin; a requesting user who is neither gets 403 and the notification stays
\* as it was.
DeleteNotificationOwnerOrAdmin ==
  [][\A t \in Tokens, id \in NotificationIdParams :
       LET requester == SessionUser(users, t)
           target == {d \in notifications : d._id = id}
           allowed == \E u \in requester, d \in target : d.userId = u._id \/ u.role = "admin" IN
       deleteNotification(t, id) =>
          /\ (requester # {} /\ target # {} /\ ~allowed) =>
                resp'.code = 403 /\ notifications' = notifications
          /\ notifications' # notifications => allowed]_vars

\* A user who is neither the owner nor an admin was refused.
DeleteNotificationRefusedForStranger ==
  /\ resp.op = "deleteNotification" /\ resp.code = 403
  /\ \E d \in notifications, u \in users :
        /\ d._id = resp.body.id /\ resp.body.userToken = Token(u._id)
        /\ d.userId # u._id /\ u.role # "admin"

-----------------------------------------------------------------------------
(* Properties of the Performance controller *)

\* C23: the Performance store holds at most one record per (labourerId,
\* projectId, date) after any sequence of create, update and delete requests.
PerformanceUnique ==
  \A a \in performance, b \in performance :
     PerformanceKey(a) = PerformanceKey(b) => a._id = b._id

-----------------------------------------------------------------------------
(* Properties of the User controller *)

CompleteRegisterBodies ==
  {b \in RegisterBodies : Truthy(b.name) /\ b.role \in {Undefined} \cup allowedUserRoles}

\* C25: no two User records share a stored email or username, and a register
\* whose lower-cased email is stored already, or whose lower-cased username
\* is that of the user registered just before, answers 409 and creates no
\* user.
RegisterConflictRefused ==
  [][\A body \in (IF resp'.op = "register" THEN CompleteRegisterBodies ELSE {}),
        sq \in StrictQueryOutcomes :
       register(body, sq) =>
          /\ \A a \in users', b \in users' : a.email = b.email => a._id = b._id
          /\ (\E u \in users : u.email = ToLowerCase(body.email)) =>
                resp'.code = 409 /\ users' = users
          /\ users' # users =>
                \A again \in CompleteRegisterBodies, x \in StrictQueryOutcomes :
                   ToLowerCase(again.username) = ToLowerCase(body.username) =>
                      LET r == registerResult(users', nextUserId', again, x) IN
                      r.code = 409 /\ r.us = users']_vars

-----------------------------------------------------------------------------
(* Properties of the Labourer controller *)

\* C26: in every handler all input checks complete before the first
\* persistence access: in the steps of a request no check of an input field
\* follows a read or write of the store.
ValidationBeforePersistence ==
  "steps" \in DOMAIN resp.body =>
     \A i \in DOMAIN resp.body.steps, j \in DOMAIN resp.body.steps :
        (i < j /\ resp.body.steps[i] \in persistenceSteps)
           => resp.body.steps[j] \in persistenceSteps

-----------------------------------------------------------------------------
(* Properties of interleaved leave reviews *)

\* The other request on the same leave read it pending before this write:
\* it is suspended at its own write, or has completed it with success.
ReadTogether(p, q) ==
  /\ q # p
  /\ inflight[q].stage \in {"read", "done"}
  /\ inflight[q].code = 200
  /\ inflight[q].id = inflight[p].id

StoredStatus(lv, id) ==
  IF \E d \in lv : d._id = id THEN (CHOOSE d \in lv : d._id = id).status ELSE "deleted"

WrittenStatus(req) ==
  IF req.op = "cancelLeaveRequest" THEN "deleted" ELSE reviewStatus(req.op)

\* C28 as stated: when two of approveLeave, rejectLeave and cancelLeaveRequest
\* read the same pending leave before either writes, both report success and
\* the stored status is that of the last writer.
InterleavedReviewsBothSucceed ==
  [][\A p \in {1, 2}, q \in {1, 2} :
       (leaveAwaitWrite(p) /\ ReadTogether(p, q)) =>
          /\ inflight'[p].code = 200
          /\ StoredStatus(leaves', inflight[p].id) = WrittenStatus(inflight[p])]_vars

\* C28, amended: both requests pass the pending check; each write reports
\* success and leaves its own status stored, except an approval or rejection
\* written after the cancellation deleted the leave, which is answered 500
\* and leaves the leave deleted.
InterleavedReviewsLastWriterWins ==
  [][\A p \in {1, 2}, q \in {1, 2} :
       (leaveAwaitWrite(p) /\ ReadTogether(p, q)) =>
          IF inflight[p].op # "cancelLeaveRequest"
               /\ StoredStatus(leaves, inflight[p].id) = "deleted"
            THEN inflight'[p].code = 500 /\ leaves' = leaves
            ELSE /\ inflight'[p].code = 200
                 /\ StoredStatus(leaves', inflight[p].id) = WrittenStatus(inflight[p])]_vars

\* An approval that reported success, and the leave ended rejected or deleted
\* by the other request.
ApprovedLeaveEndedOtherwise ==
  \E p \in {1, 2}, q \in {1, 2} :
     /\ p # q
     /\ inflight[p].stage = "done" /\ inflight[q].stage = "done"
     /\ inflight[p].op = "approveLeave" /\ inflight[p].code = 200
     /\ inflight[q].op # "approveLeave" /\ inflight[q].code = 200
     /\ inflight[q].id = inflight[p].id
     /\ StoredStatus(leaves, inflight[p].id) \in {"rejected", "deleted"}

-----------------------------------------------------------------------------
(* Properties of all controllers *)

collections ==
  <<attendance, nextAttId, salary, nextSalId, leaves, nextLeaveId, users, otherStores>>

====
